---- MODULE Spec2Model ----
(***************************************************************************)
(* Transparent proxy (tproxy-go): rule engine, upstream dialer, relay and  *)
(* per-connection handler.                                                 *)
(*                                                                         *)
(* Text (host names, action strings, HTTP lines) is a sequence of          *)
(* one-character strings; raw bytes are numbers in 0..255.                 *)
(***************************************************************************)
EXTENDS Integers, Sequences, FiniteSets, TLC

VARIABLES
    \* rule engine (config.FindProxyForHost called on one input)
    rules, host, rpc, action,
    \* one call of a pure function: its name, its argument, its result
    callee, arg, ret,
    \* StartServers: its position, each listening socket ("none" | "listening"
    \* | "failed" | "closed"), the error it returned, each accept loop, the
    \* connections queued on each listener, the accept errors each loop has
    \* logged, and the accepted connections with their handlers
    spc, bound, startErr, loop, pending, acceptErrs, conns,
    \* one accepted connection: handler position, listener class, configuration
    pc, listener, cfgRules,
    \* client socket: segments the client has yet to send, bytes it has sent,
    \* bytes arrived and unread, its FIN, bytes written to it, closed by the proxy
    cliSegs, cliSent, cliIn, cliFin, cliOut, cliClosed,
    \* upstream socket: "none" | "open" | "closed", and the same as above;
    \* upExpired: the deadline installed at dial time has passed
    upState, upSegs, upSent, upIn, upFin, upOut, upExpired,
    \* handler locals
    clientIP, originalIP, originalPort, initialData,
    targetHost, targetPort, proxyAction,
    \* dial addresses attempted, in order, each with the function that dialed
    dials,
    \* ConnectViaProxy / ConnectDirect: outcome "none" | "conn" | "err",
    \* progress flags, bufio buffer, status line, bytes of the request written,
    \* bytes taken from the upstream socket when the dialer returned
    remoteConn, tcpOK, reqOK, statusRead, rdBuf, response, reqLen, hsEnd,
    \* relays: position and chunk of each Pipe, wait group, context
    ppc, pbuf, wg, ctxDone,
    \* peers ("client", "upstream") that have stopped reading what the proxy
    \* writes to them: a Write to such a peer blocks
    stall

svars == <<spc, bound, startErr, loop, pending, acceptErrs, conns>>

rvars == <<rules, host, rpc, action, callee, arg, ret, svars>>

cvars == <<cliSegs, cliSent, cliIn, cliFin, cliOut, cliClosed>>

uvars == <<upState, upSegs, upSent, upIn, upFin, upOut, upExpired>>

lvars == <<clientIP, originalIP, originalPort, initialData,
           targetHost, targetPort, proxyAction>>

dvars == <<remoteConn, tcpOK, reqOK, statusRead, rdBuf, response, reqLen, hsEnd>>

pvars == <<ppc, pbuf, wg, ctxDone>>

hvars == <<pc, listener, cfgRules, cvars, uvars, lvars, dials, dvars, pvars, stall>>

vars == <<rvars, hvars>>

----------------------------------------------------------------------------
(* Generic helpers on sequences                                            *)

Tail2(s, n) == SubSeq(s, n, Len(s))

\* strings.HasPrefix(s, p)
HasPrefix(s, p) == Len(s) >= Len(p) /\ SubSeq(s, 1, Len(p)) = p

IsPrefixOf(p, s) == Len(p) =< Len(s) /\ SubSeq(s, 1, Len(p)) = p

Digits == <<"0", "1", "2", "3", "4", "5", "6", "7", "8", "9">>

IsDigit(c) == \E d \in 1..10 : Digits[d] = c

DigitVal(c) == (CHOOSE d \in 1..10 : Digits[d] = c) - 1

RECURSIVE DecVal(_)
DecVal(s) == IF s = <<>> THEN 0
             ELSE 10 * DecVal(SubSeq(s, 1, Len(s) - 1)) + DigitVal(s[Len(s)])

\* strconv.Atoi: optional sign, then one or more decimal digits
Atoi(s) ==
    LET signed == s # <<>> /\ s[1] \in {"+", "-"}
        body   == IF signed THEN Tail(s) ELSE s
    IN  IF body = <<>> \/ \E i \in 1..Len(body) : ~IsDigit(body[i])
        THEN [ok |-> FALSE, val |-> 0]
        ELSE [ok |-> TRUE,
              val |-> IF signed /\ s[1] = "-" THEN 0 - DecVal(body) ELSE DecVal(body)]

RECURSIVE Itoa(_)
\* strconv.Itoa / fmt %d of a non-negative or negative int
Itoa(n) == IF n < 0 THEN <<"-">> \o Itoa(0 - n)
           ELSE IF n < 10 THEN <<Digits[n + 1]>>
           ELSE Itoa(n \div 10) \o <<Digits[(n % 10) + 1]>>

----------------------------------------------------------------------------
(* Bytes on the wire and Go strings                                        *)

AsciiPrintable ==
    <<" ", "!", "\"", "#", "$", "%", "&", "'", "(", ")", "*", "+", ",", "-", ".", "/",
      "0", "1", "2", "3", "4", "5", "6", "7", "8", "9", ":", ";", "<", "=", ">", "?",
      "@", "A", "B", "C", "D", "E", "F", "G", "H", "I", "J", "K", "L", "M", "N", "O",
      "P", "Q", "R", "S", "T", "U", "V", "W", "X", "Y", "Z", "[", "\\", "]", "^", "_",
      "#96", "a", "b", "c", "d", "e", "f", "g", "h", "i", "j", "k", "l", "m", "n", "o",
      "p", "q", "r", "s", "t", "u", "v", "w", "x", "y", "z", "{", "|", "}", "~">>

\* the character a byte value denotes in a Go string (a byte with no printable
\* form, and the backquote, is written '#' followed by its decimal value)
Chr(b) == IF b >= 32 /\ b =< 126 THEN AsciiPrintable[b - 31]
          ELSE IF b = 9 THEN "\t"
          ELSE IF b = 10 THEN "\n"
          ELSE IF b = 13 THEN "\r"
          ELSE "#" \o ToString(b)

Ord(c) == CHOOSE b \in 0..255 : Chr(b) = c

\* string(bytes) and []byte(string)
StringOf(bytes) == [i \in 1..Len(bytes) |-> Chr(bytes[i])]

BytesOf(str) == [i \in 1..Len(str) |-> Ord(str[i])]

CRLF == <<"\r", "\n">>

\* index of the first occurrence of c in s, 0 when absent
IndexOf(s, c) ==
    IF \E i \in 1..Len(s) : s[i] = c
    THEN CHOOSE i \in 1..Len(s) : s[i] = c /\ \A j \in 1..(i - 1) : s[j] # c
    ELSE 0

----------------------------------------------------------------------------
(* Rule engine: internal/config/config.go                                  *)

MaxRules == 2
MaxHostLen == 2

DIRECT == <<"D", "I", "R", "E", "C", "T">>
DROP == <<"D", "R", "O", "P">>

\* regexp.MatchString on the pattern subset used here: literals, '.', 'x*',
\* a leading '^', a trailing '$'.  A pattern with an unclosed '[' or with
\* '*' that has nothing to repeat does not compile.
RegexCompiles(p) ==
    /\ \A i \in 1..Len(p) : p[i] # "["
    /\ \A i \in 1..Len(p) : p[i] = "*" => (i > 1 /\ p[i - 1] \notin {"*", "^"})

RECURSIVE MatchHere(_, _)
MatchHere(re, text) ==
    IF re = <<>> THEN TRUE
    ELSE IF Len(re) >= 2 /\ re[2] = "*"
    THEN \E k \in 0..Len(text) :
            /\ \A j \in 1..k : re[1] = "." \/ text[j] = re[1]
            /\ MatchHere(Tail2(re, 3), Tail2(text, k + 1))
    ELSE IF re = <<"$">> THEN text = <<>>
    ELSE /\ text # <<>>
         /\ (re[1] = "." \/ re[1] = text[1])
         /\ MatchHere(Tail(re), Tail(text))

RegexMatch(p, h) ==
    IF p # <<>> /\ p[1] = "^" THEN MatchHere(Tail(p), h)
    ELSE \E i \in 1..(Len(h) + 1) : MatchHere(p, Tail2(h, i))

\* regexp.MatchString(pattern, host) -> (matched, err)
MatchString(p, h) ==
    IF RegexCompiles(p) THEN [matched |-> RegexMatch(p, h), err |-> FALSE]
    ELSE [matched |-> FALSE, err |-> TRUE]

FirstColon(proxy) == IndexOf(proxy, ":")

\* the loop that looks for the last colon (0 when there is none)
LastColon(proxy) ==
    IF \E i \in 1..Len(proxy) : proxy[i] = ":"
    THEN CHOOSE i \in 1..Len(proxy) :
            proxy[i] = ":" /\ \A j \in (i + 1)..Len(proxy) : proxy[j] # ":"
    ELSE 0

parseProxyAddress(proxy) ==
    LET lastColon == LastColon(proxy)
        portStr   == Tail2(proxy, lastColon + 1)
        p         == Atoi(portStr)
    IN  IF lastColon = 0 THEN [host |-> proxy, port |-> 3128]
        ELSE [host |-> SubSeq(proxy, 1, lastColon - 1),
              port |-> IF portStr # <<>> /\ p.ok THEN p.val ELSE 3128]

ProxyAction(type, h, p) == [Type |-> type, Host |-> h, Port |-> p]

\* the action a matching rule yields (the switch on rule.Proxy)
RuleAction(rule) ==
    IF rule.Proxy = DIRECT THEN ProxyAction("DIRECT", <<>>, 0)
    ELSE IF rule.Proxy = DROP THEN ProxyAction("DROP", <<>>, 0)
    ELSE LET a == parseProxyAddress(rule.Proxy)
         IN  ProxyAction("PROXY", a.host, a.port)

RECURSIVE FindFrom(_, _, _)
FindFromLast(h, rs, i) ==
    LET hits == {j \in i..Len(rs) : MatchString(rs[j].Pattern, h).matched}
    IN  IF hits = {} THEN ProxyAction("DIRECT", <<>>, 0)
        ELSE RuleAction(rs[CHOOSE j \in hits : \A k \in hits : k =< j])

FindFromStopOnError(h, rs, i) ==
    IF i > Len(rs) THEN ProxyAction("DIRECT", <<>>, 0)
    ELSE LET m == MatchString(rs[i].Pattern, h)
         IN  IF m.err THEN ProxyAction("DIRECT", <<>>, 0)
             ELSE IF m.matched THEN RuleAction(rs[i])
             ELSE FindFrom(h, rs, i + 1)

\* the loop of FindProxyForHost from rule index i on
FindFrom(h, rs, i) ==
    IF i > Len(rs) THEN ProxyAction("DIRECT", <<>>, 0)
    ELSE LET m == MatchString(rs[i].Pattern, h)
         IN  IF m.err THEN FindFrom(h, rs, i + 1)
             ELSE IF m.matched THEN RuleAction(rs[i])
             ELSE FindFrom(h, rs, i + 1)

FindProxyForHost(h, rs) == FindFrom(h, rs, 1)

\* the error result of FindProxyForHost: nil at each of its return statements
RECURSIVE FindErrFrom(_, _, _)
FindErrFrom(h, rs, i) ==
    IF i > Len(rs) THEN FALSE
    ELSE LET m == MatchString(rs[i].Pattern, h)
         IN  IF m.err THEN FindErrFrom(h, rs, i + 1)
             ELSE IF m.matched THEN FALSE
             ELSE FindErrFrom(h, rs, i + 1)

Patterns ==
    { <<".", "*">>, <<"^", "a", "$">>, <<"a">>, <<"b", "$">>,
      <<"^", "a", ".", "*", "b">>, <<"[", "a">>, <<"*", "a">> }

ActionStrings ==
    { DIRECT, DROP, <<"p">>, <<"q", ":", "8", "0">>, <<"d", "i", "r", "e", "c", "t">> }

Rule == [Pattern : Patterns, Proxy : ActionStrings]

SeqsUpTo(S, n) == UNION {[1..k -> S] : k \in 0..n}

HostNames == SeqsUpTo({"a", "b"}, MaxHostLen)

NoAction == ProxyAction("NONE", <<>>, 0)

Pipes == {"c2u", "u2c"}

\* no connection: the handler part of the state when only a function is run
HandlerIdle ==
    /\ pc = "none" /\ listener = "none" /\ cfgRules = <<>>
    /\ cliSegs = <<>> /\ cliSent = <<>> /\ cliIn = <<>> /\ cliFin = FALSE
    /\ cliOut = <<>> /\ cliClosed = FALSE
    /\ upState = "none" /\ upSegs = <<>> /\ upSent = <<>> /\ upIn = <<>>
    /\ upFin = FALSE /\ upOut = <<>> /\ upExpired = FALSE
    /\ clientIP = <<>> /\ originalIP = <<>> /\ originalPort = 0
    /\ initialData = <<>> /\ targetHost = <<>> /\ targetPort = 0
    /\ proxyAction = NoAction
    /\ dials = <<>>
    /\ remoteConn = "none" /\ tcpOK = FALSE /\ reqOK = FALSE /\ statusRead = FALSE
    /\ rdBuf = <<>> /\ response = <<>> /\ reqLen = 0 /\ hsEnd = 0
    /\ ppc = [p \in Pipes |-> "idle"] /\ pbuf = [p \in Pipes |-> <<>>]
    /\ wg = 0 /\ ctxDone = FALSE
    /\ stall = {}

\* no function is being called on its own
Listeners == {"https", "http"}

\* StartServers has not been called
ServerIdle ==
    /\ spc = "none" /\ startErr = <<>> /\ conns = <<>>
    /\ bound = [l \in Listeners |-> "none"]
    /\ loop = [l \in Listeners |-> "none"]
    /\ pending = [l \in Listeners |-> 0]
    /\ acceptErrs = [l \in Listeners |-> 0]

CallIdle == callee = "none" /\ arg = <<>> /\ ret = <<>> /\ ServerIdle

RulesIdle ==
    /\ rules = <<>> /\ host = <<>> /\ rpc = "none" /\ action = NoAction
    /\ CallIdle

RulesInit ==
    /\ rules \in SeqsUpTo(Rule, MaxRules)
    /\ host \in HostNames
    /\ rpc = "call"
    /\ action = NoAction
    /\ CallIdle
    /\ HandlerIdle

Resolve ==
    /\ rpc = "call"
    /\ action' = FindProxyForHost(host, rules)
    /\ rpc' = "returned"
    /\ UNCHANGED <<rules, host, callee, arg, ret, svars, hvars>>

RulesNext == Resolve

SpecRules == RulesInit /\ [][RulesNext]_vars

\* FindProxyForHost called with one rule that matches, for each action string
MaxActionLen == 3

ActionChars == {"h", ":", "8", "-", "x"}

ActionInputs ==
    {DIRECT, DROP}
    \cup SeqsUpTo(ActionChars, MaxActionLen)
    \cup { <<"[", ":", ":", "1", "]", ":", "8", "0">>, <<"[", ":", ":", "1", "]">>,
           <<"d", "i", "r", "e", "c", "t">>, <<"D", "R", "O", "P", ":", "1">>,
           <<"h", ":", "+", "8">>, <<"h", ":", "0">>, <<"h", ":", "7", "0", "0", "0", "0">> }

ActionInit ==
    /\ \E a \in ActionInputs : rules = <<[Pattern |-> <<".", "*">>, Proxy |-> a]>>
    /\ host \in {<<"a">>, <<>>}
    /\ rpc = "call"
    /\ action = NoAction
    /\ CallIdle
    /\ HandlerIdle

SpecAction == ActionInit /\ [][RulesNext]_vars

----------------------------------------------------------------------------
(* Host extraction: internal/proxy/proxy.go                                *)

\* bufio.Reader.ReadString('\n') on an in-memory string: the line with its
\* delimiter, or the rest of the input and an error when no delimiter is left
ReadLine(s) ==
    LET idx == IndexOf(s, "\n")
    IN  IF idx = 0 THEN [line |-> s, err |-> TRUE, rest |-> <<>>]
        ELSE [line |-> SubSeq(s, 1, idx), err |-> FALSE, rest |-> Tail2(s, idx + 1)]

IsSpace(c) == c \in {" ", "\t", "\n", "\r", Chr(11), Chr(12)}

RECURSIVE TrimLeft(_)
TrimLeft(s) == IF s # <<>> /\ IsSpace(s[1]) THEN TrimLeft(Tail(s)) ELSE s

RECURSIVE TrimRight(_)
TrimRight(s) == IF s # <<>> /\ IsSpace(s[Len(s)])
                THEN TrimRight(SubSeq(s, 1, Len(s) - 1)) ELSE s

\* strings.TrimSpace
TrimSpace(s) == TrimRight(TrimLeft(s))

RECURSIVE Split(_, _)
\* strings.Split(s, sep) for a one-character separator
Split(s, sep) ==
    LET idx == IndexOf(s, sep)
    IN  IF idx = 0 THEN <<s>>
        ELSE <<SubSeq(s, 1, idx - 1)>> \o Split(Tail2(s, idx + 1), sep)

HostPrefix == <<"H", "o", "s", "t", ":", " ">>

RECURSIVE HostHeaderScan(_)
\* the header loop of ParseHTTPHost
HostHeaderScan(s) ==
    LET r == ReadLine(s)
    IN  IF r.err \/ r.line = CRLF THEN [host |-> <<>>, port |-> 80]
        ELSE IF HasPrefix(r.line, HostPrefix)
        THEN LET hostStr == TrimSpace(Tail2(r.line, Len(HostPrefix) + 1))
                 parts   == Split(hostStr, ":")
                 p       == IF Len(parts) > 1 THEN Atoi(parts[2])
                            ELSE [ok |-> FALSE, val |-> 0]
             IN  [host |-> parts[1], port |-> IF p.ok THEN p.val ELSE 80]
        ELSE HostHeaderScan(r.rest)

\* the header loop applied from the first line on
ParseHTTPHostNoSkip(data) == HostHeaderScan(StringOf(data))

ParseHTTPHost(data) ==
    LET first == ReadLine(StringOf(data))
    IN  IF first.err THEN [host |-> <<>>, port |-> 80]
        ELSE HostHeaderScan(first.rest)

recordTypeHandshake == 22
handshakeTypeClientHello == 1
extensionTypeSNI == 0
nameTypeHost == 0
randomSize == 32

\* data[i] with Go's 0-based index
At(data, i) == data[i + 1]

U16(data, i) == At(data, i) * 256 + At(data, i + 1)

U24(data, i) == At(data, i) * 65536 + At(data, i + 1) * 256 + At(data, i + 2)

\* an index expression data[lo] .. data[hi] is within the slice; Go panics
\* ("index out of range") when it is not
Readable(data, lo, hi) == 0 =< lo /\ hi < Len(data)

\* what a function yields when the run-time panics inside it: as a position,
\* and as a string
PanicPos == -1

Panic == <<"panic: index out of range">>

findTLSHandshakeAtStart(data) == IF Len(data) >= 3 THEN 0 ELSE -1

findTLSHandshake(data) ==
    LET hits == {i \in 0..(Len(data) - 3) :
                    /\ At(data, i) = recordTypeHandshake
                    /\ At(data, i + 1) = 3
                    /\ At(data, i + 2) \in {1, 2, 3}}
    IN  IF hits = {} THEN -1 ELSE CHOOSE i \in hits : \A j \in hits : i =< j

hasEnoughDataLoose(data, pos, required) == pos + required =< Len(data) + 1

hasEnoughData(data, pos, required) == pos + required =< Len(data)

skipField(data, pos, length) ==
    IF ~hasEnoughData(data, pos, length) THEN Len(data) ELSE pos + length

skipVariableField(data, pos, lengthBytes) ==
    IF ~hasEnoughData(data, pos, lengthBytes) THEN Len(data)
    ELSE IF ~Readable(data, pos, pos + lengthBytes - 1) THEN PanicPos
    ELSE LET length == IF lengthBytes = 1 THEN At(data, pos)
                       ELSE IF lengthBytes = 2 THEN U16(data, pos)
                       ELSE U24(data, pos)
             newPos == pos + lengthBytes
         IN  IF length < 0 \/ length > 65536 THEN Len(data)
             ELSE skipField(data, newPos, length)

RECURSIVE NameLoop(_, _, _)
\* the loop over ServerName entries
NameLoop(data, pos, listEnd) ==
    IF ~(pos < listEnd - 3) THEN <<>>
    ELSE IF ~Readable(data, pos, pos + 2) THEN Panic
    ELSE LET nameType   == At(data, pos)
             nameLength == U16(data, pos + 1)
             p          == pos + 3
         IN  IF p + nameLength > Len(data) THEN <<>>
             ELSE IF nameType = nameTypeHost
             THEN StringOf(SubSeq(data, p + 1, p + nameLength))
             ELSE NameLoop(data, p + nameLength, listEnd)

RECURSIVE ExtLoop(_, _, _)
\* the loop over extensions
ExtLoop(data, pos, extensionsEnd) ==
    IF ~(pos < extensionsEnd - 4) THEN <<>>
    ELSE IF ~Readable(data, pos, pos + 3) THEN Panic
    ELSE LET extType   == U16(data, pos)
             extLength == U16(data, pos + 2)
             p         == pos + 4
         IN  IF p + extLength > Len(data) THEN <<>>
             ELSE IF extType = extensionTypeSNI
             THEN IF extLength < 2 THEN <<>>
                  ELSE IF ~Readable(data, p, p + 1) THEN Panic
                  ELSE LET listLength == U16(data, p)
                           q          == p + 2
                       IN  IF listLength < 3 \/ q + listLength > Len(data) THEN <<>>
                           ELSE NameLoop(data, q, q + listLength)
             ELSE ExtLoop(data, p + extLength, extensionsEnd)

HandshakeIncomplete(len, handshakeLength) == len < 9 + handshakeLength

\* the only case in which ParseSNI gives up on a ClientHello shorter than
\* its handshake length says: the available length len - 9 is negative
HandshakeTooShort(len, handshakeLength) ==
    len < 9 + handshakeLength /\ len - 9 < 0

\* ParseSNI after the record has been located (data starts at the record)
ParseClientHello(data) ==
    IF Len(data) < 5 \/ At(data, 0) # recordTypeHandshake THEN <<>>
    ELSE IF Len(data) < 9 \/ At(data, 5) # handshakeTypeClientHello THEN <<>>
    ELSE LET recordLength == U16(data, 3)
             hl0 == U24(data, 6)
             hl1 == IF hl0 > recordLength - 4 THEN recordLength - 4 ELSE hl0
             skipVar(pos, n) == IF pos = PanicPos THEN PanicPos
                                ELSE skipVariableField(data, pos, n)
             p1  == skipField(data, 9, 2)
             p2  == skipField(data, p1, randomSize)
             p3  == skipVar(p2, 1)
             p4  == skipVar(p3, 2)
             p5  == skipVar(p4, 1)
         IN  IF HandshakeTooShort(Len(data), hl1) THEN <<>>
             ELSE IF p5 = PanicPos THEN Panic
             ELSE IF p5 + 2 > Len(data) THEN <<>>
             ELSE IF ~Readable(data, p5, p5 + 1) THEN Panic
             ELSE LET extensionsLength == U16(data, p5)
                      pos == p5 + 2
                      extensionsEnd == IF pos + extensionsLength > Len(data)
                                       THEN Len(data) ELSE pos + extensionsLength
                  IN  ExtLoop(data, pos, extensionsEnd)

ParseSNI(data) ==
    LET startPos == findTLSHandshake(data)
    IN  IF startPos = -1 THEN <<>>
        ELSE ParseClientHello(Tail2(data, startPos + 1))

----------------------------------------------------------------------------
(* Sample traffic                                                          *)

Zeros(n) == [i \in 1..n |-> 0]

\* a well-formed TLS 1.2 ClientHello record carrying one host_name entry
ClientHello(name) ==
    LET n == Len(name)
    IN  <<22, 3, 1, 0, n + 56>> \o <<1, 0, 0, n + 52>> \o <<3, 3>> \o Zeros(32)
        \o <<0>> \o <<0, 2, 19, 1>> \o <<1, 0>>
        \o <<0, n + 9>> \o <<0, 0, 0, n + 5>> \o <<0, n + 3>> \o <<0, 0, n>> \o name

\* a well-formed ClientHello with a session id, raw extensions before and
\* after the server_name extension, and one host_name entry
ClientHelloWith(sid, pre, post, name) ==
    LET n    == Len(name)
        exts == pre \o <<0, 0, 0, n + 5>> \o <<0, n + 3>> \o <<0, 0, n>> \o name \o post
        body == <<3, 3>> \o Zeros(32) \o <<Len(sid)>> \o sid \o <<0, 2, 19, 1>> \o <<1, 0>>
                \o <<0, Len(exts)>> \o exts
    IN  <<22, 3, 1, 0, Len(body) + 4>> \o <<1, 0, 0, Len(body)>> \o body

\* number of bytes of ClientHelloWith(sid, pre, post, name) before the host name
NameStart(sid, pre) == 61 + Len(sid) + Len(pre)

\* "GET / HTTP/1.1\r\n" followed by the given header lines and the empty line
GetRequest(headers) ==
    BytesOf(<<"G", "E", "T", " ", "/", " ", "H", "T", "T", "P", "/", "1", ".", "1">>
            \o CRLF \o headers \o CRLF)

\* ParseSNI called on one byte sequence
MaxPrefixLen == 2

SniNames == {<<97>>, <<97, 98>>, <<97, 46, 98>>}

SessionIds == {<<>>, <<5, 6>>}

\* nothing, extended_master_secret (empty), supported_groups (one group)
ExtsBefore == {<<>>, <<0, 23, 0, 0>>, <<0, 10, 0, 4, 0, 2, 0, 29>>}

ExtsAfter == {<<>>, <<0, 23, 0, 0>>}

HelloParams == [sid : SessionIds, pre : ExtsBefore, post : ExtsAfter, name : SniNames]

HelloOf(h) == ClientHelloWith(h.sid, h.pre, h.post, h.name)

\* the bytes contain 0x16 0x03 followed by 0x01, 0x02 or 0x03
ContainsRecordStart(bytes) ==
    \E i \in 1..(Len(bytes) - 2) :
        bytes[i] = 22 /\ bytes[i + 1] = 3 /\ bytes[i + 2] \in {1, 2, 3}

\* bytes in front of the ClientHello that do not look like a record start
CleanPrefixes == {P \in SeqsUpTo({0, 3, 22}, MaxPrefixLen) : ~ContainsRecordStart(P)}

Prefixed == {P \o HelloOf(h) : P \in CleanPrefixes, h \in HelloParams}

Truncated == UNION {{SubSeq(HelloOf(h), 1, k) : k \in 0..Len(HelloOf(h))} : h \in HelloParams}

\* a ClientHello with one or two of its bytes overwritten
Corrupted ==
    LET H == ClientHelloWith(<<5, 6>>, <<0, 23, 0, 0>>, <<>>, <<97, 98>>)
    IN  {[H EXCEPT ![i] = v, ![j] = w] :
            i \in 1..Len(H), j \in 44..Len(H), v \in {0, 1, 255}, w \in {0, 3, 255}}

SniInputs == Prefixed \cup Truncated \cup Corrupted

SniInit ==
    /\ rules = <<>> /\ host = <<>> /\ action = NoAction
    /\ rpc = "call" /\ callee = "ParseSNI"
    /\ ServerIdle
    /\ arg \in SniInputs
    /\ ret = <<>>
    /\ HandlerIdle

CallParseSNI ==
    /\ rpc = "call" /\ callee = "ParseSNI"
    /\ ret' = ParseSNI(arg)
    /\ rpc' = "returned"
    /\ UNCHANGED <<rules, host, action, callee, arg, svars, hvars>>

SniNext == CallParseSNI

SpecSNI == SniInit /\ [][SniNext]_vars

\* ParseHTTPHost called on one request head
MaxHeaders == 3

FirstLines ==
    { <<"G", "E", "T", " ", "/", " ", "H", "T", "T", "P", "/", "1", ".", "1">> \o CRLF,
      HostPrefix \o <<"r">> \o CRLF,
      <<"G", "E", "T", " ", "/">> }

HeaderLines ==
    { HostPrefix \o <<"a">> \o CRLF,
      HostPrefix \o <<"b", ":", "8", "1">> \o CRLF,
      HostPrefix \o <<"c", ":", "7", "0", "0", "0", "0">> \o CRLF,
      HostPrefix \o <<"d", ":", "-", "5">> \o CRLF,
      HostPrefix \o <<"e", ":", "x">> \o CRLF,
      HostPrefix \o <<" ", "f", ":", "8", " ">> \o CRLF,
      HostPrefix \o <<"g">>,
      <<"h", "o", "s", "t", ":", " ", "i">> \o CRLF,
      <<"X", ":", " ", "y">> \o CRLF,
      <<"\n">>,
      CRLF }

RequestLineBytes == {BytesOf(l) : l \in FirstLines}

HeaderLineBytes == {BytesOf(l) : l \in HeaderLines}

RECURSIVE Flatten(_)
Flatten(ss) == IF ss = <<>> THEN <<>> ELSE Head(ss) \o Flatten(Tail(ss))

HttpInputs ==
    {rl \o Flatten(hs) : rl \in RequestLineBytes, hs \in SeqsUpTo(HeaderLineBytes, MaxHeaders)}

HttpInit ==
    /\ rules = <<>> /\ host = <<>> /\ action = NoAction
    /\ rpc = "call" /\ callee = "ParseHTTPHost"
    /\ ServerIdle
    /\ arg \in HttpInputs
    /\ ret = <<>>
    /\ HandlerIdle

CallParseHTTPHost ==
    /\ rpc = "call" /\ callee = "ParseHTTPHost"
    /\ ret' = ParseHTTPHost(arg)
    /\ rpc' = "returned"
    /\ UNCHANGED <<rules, host, action, callee, arg, svars, hvars>>

HttpNext == CallParseHTTPHost

SpecHTTP == HttpInit /\ [][HttpNext]_vars

----------------------------------------------------------------------------
(* Configuration loading.                                                  *)

DEFAULT_TIMEOUT == 900

DefaultConfig ==
    [Listen |-> [Host      |-> <<"1", "2", "7", ".", "0", ".", "0", ".", "1">>,
                 HTTPSPort |-> 3130,
                 HTTPPort  |-> 3131,
                 Timeout   |-> DEFAULT_TIMEOUT],
     Rules  |-> <<[Pattern |-> <<".", "*">>, Proxy |-> DIRECT]>>]

\* a key of the YAML document: absent, or present with a value
Opt(S, zero) ==
    {[set |-> FALSE, val |-> zero]} \cup {[set |-> TRUE, val |-> v] : v \in S}

\* the file at configPath: missing, unreadable, not YAML of this schema, or
\* a document in which each key is present or absent
ConfigFiles ==
    {[kind |-> k] : k \in {"missing", "unreadable", "malformed"}}
    \cup [kind       : {"yaml"},
          host       : Opt({<<>>, <<"0", ".", "0", ".", "0", ".", "0">>}, <<>>),
          https_port : Opt({0, -1, 8443, 70000}, 0),
          http_port  : Opt({0, 8080, 65536}, 0),
          timeout    : Opt({0, 30}, 0),
          rules      : Opt({<<>>,
                            <<[Pattern |-> <<"a">>, Proxy |-> DROP]>>,
                            <<[Pattern |-> <<"a">>, Proxy |-> DROP],
                              [Pattern |-> <<".", "*">>, Proxy |-> <<"p">>]>>}, <<>>)]

\* yaml.Unmarshal into a zero Config: an absent key leaves the zero value
Unmarshal(doc) ==
    [Listen |-> [Host      |-> doc.host.val,
                 HTTPSPort |-> doc.https_port.val,
                 HTTPPort  |-> doc.http_port.val,
                 Timeout   |-> doc.timeout.val],
     Rules  |-> doc.rules.val]

MergeDefaultsSwapPorts(config) ==
    [Listen |-> [Host      |-> IF config.Listen.Host = <<>>
                               THEN DefaultConfig.Listen.Host ELSE config.Listen.Host,
                 HTTPSPort |-> IF config.Listen.HTTPSPort = 0
                               THEN DefaultConfig.Listen.HTTPPort ELSE config.Listen.HTTPSPort,
                 HTTPPort  |-> IF config.Listen.HTTPPort = 0
                               THEN DefaultConfig.Listen.HTTPSPort ELSE config.Listen.HTTPPort,
                 Timeout   |-> IF config.Listen.Timeout = 0
                               THEN DefaultConfig.Listen.Timeout ELSE config.Listen.Timeout],
     Rules  |-> IF Len(config.Rules) = 0 THEN DefaultConfig.Rules ELSE config.Rules]

\* the merge with DefaultConfig at the end of LoadConfig
MergeDefaults(config) ==
    [Listen |-> [Host      |-> IF config.Listen.Host = <<>>
                               THEN DefaultConfig.Listen.Host ELSE config.Listen.Host,
                 HTTPSPort |-> IF config.Listen.HTTPSPort = 0
                               THEN DefaultConfig.Listen.HTTPSPort ELSE config.Listen.HTTPSPort,
                 HTTPPort  |-> IF config.Listen.HTTPPort = 0
                               THEN DefaultConfig.Listen.HTTPPort ELSE config.Listen.HTTPPort,
                 Timeout   |-> IF config.Listen.Timeout = 0
                               THEN DefaultConfig.Listen.Timeout ELSE config.Listen.Timeout],
     Rules  |-> IF Len(config.Rules) = 0 THEN DefaultConfig.Rules ELSE config.Rules]

LoadConfig(file) ==
    IF file.kind = "missing" THEN [err |-> FALSE, config |-> DefaultConfig]
    ELSE IF file.kind \in {"unreadable", "malformed"} THEN [err |-> TRUE]
    ELSE [err |-> FALSE, config |-> MergeDefaults(Unmarshal(file))]

ConfigInit ==
    /\ rules = <<>> /\ host = <<>> /\ action = NoAction
    /\ rpc = "call" /\ callee = "LoadConfig"
    /\ ServerIdle
    /\ arg \in ConfigFiles
    /\ ret = <<>>
    /\ HandlerIdle

CallLoadConfig ==
    /\ rpc = "call" /\ callee = "LoadConfig"
    /\ ret' = LoadConfig(arg)
    /\ rpc' = "returned"
    /\ UNCHANGED <<rules, host, action, callee, arg, svars, hvars>>

SpecConfig == ConfigInit /\ [][CallLoadConfig]_vars

----------------------------------------------------------------------------
(* StartServers: two listening sockets, one accept loop for each, and one  *)
(* handler goroutine for each accepted connection. A handler is followed   *)
(* through its phases only: "peek" (the first Read), "route" (host         *)
(* extraction, rule resolution, the branch of proxyConnection), "dial",    *)
(* "replay" (the write of the initial data), "relay" (wg.Wait) and "done". *)

\* connections that arrive over one run, accept errors one loop logs
MaxConns == 2

MaxAcceptErrors == 2

ConnIds == 1..MaxConns

ServerInit ==
    /\ rules = <<>> /\ host = <<>> /\ rpc = "none" /\ action = NoAction
    /\ callee = "none" /\ arg = <<>> /\ ret = <<>>
    /\ HandlerIdle
    /\ spc = "bind" /\ startErr = <<>> /\ conns = <<>>
    /\ bound = [l \in Listeners |-> "none"]
    /\ loop = [l \in Listeners |-> "none"]
    /\ pending = [l \in Listeners |-> 0]
    /\ acceptErrs = [l \in Listeners |-> 0]

ServerFrame == UNCHANGED <<rules, host, rpc, action, callee, arg, ret, hvars>>

\* fmt.Errorf("failed to start HTTPS server: %w", err), without the cause
BindError(l) ==
    <<"f", "a", "i", "l", "e", "d", " ", "t", "o", " ", "s", "t", "a", "r", "t", " ">>
    \o (IF l = "https" THEN <<"H", "T", "T", "P", "S">> ELSE <<"H", "T", "T", "P">>)
    \o <<" ", "s", "e", "r", "v", "e", "r">>

\* the HTTPS socket is bound first
NextToBind == IF bound["https"] = "none" THEN "https" ELSE "http"

BindNoDefer(l) ==
    /\ spc = "bind" /\ l = NextToBind
    /\ \/ /\ bound' = [bound EXCEPT ![l] = "listening"]
          /\ spc' = IF l = "http" THEN "loops" ELSE "bind"
          /\ UNCHANGED <<startErr, pending>>
       \/ /\ bound' = [bound EXCEPT ![l] = "failed"]
          /\ startErr' = BindError(l)
          /\ spc' = "returned"
          /\ UNCHANGED pending
    /\ UNCHANGED <<loop, acceptErrs, conns>>
    /\ ServerFrame

\* net.Listen for listener l; on failure StartServers returns the error and
\* the deferred Close of a listener bound before runs
Bind(l) ==
    /\ spc = "bind" /\ l = NextToBind
    /\ \/ /\ bound' = [bound EXCEPT ![l] = "listening"]
          /\ spc' = IF l = "http" THEN "loops" ELSE "bind"
          /\ UNCHANGED <<startErr, pending>>
       \/ /\ bound' = [m \in Listeners |->
                          IF m = l THEN "failed"
                          ELSE IF bound[m] = "listening" THEN "closed" ELSE bound[m]]
          /\ startErr' = BindError(l)
          /\ spc' = "returned"
          /\ pending' = [m \in Listeners |-> 0]
    /\ UNCHANGED <<loop, acceptErrs, conns>>
    /\ ServerFrame

\* the go statement of the HTTPS loop and the entry of the HTTP loop
StartLoops ==
    /\ spc = "loops"
    /\ loop' = [l \in Listeners |-> "accepting"]
    /\ spc' = "serving"
    /\ UNCHANGED <<bound, startErr, pending, acceptErrs, conns>>
    /\ ServerFrame

\* a client connects to a listening socket: the kernel queues the connection
Arrive(l) ==
    /\ bound[l] = "listening"
    /\ Len(conns) + pending["https"] + pending["http"] < MaxConns
    /\ pending' = [pending EXCEPT ![l] = @ + 1]
    /\ UNCHANGED <<spc, bound, startErr, loop, acceptErrs, conns>>
    /\ ServerFrame

AcceptErrEndsLoop(l) ==
    /\ loop[l] = "accepting"
    /\ acceptErrs[l] < MaxAcceptErrors
    /\ acceptErrs' = [acceptErrs EXCEPT ![l] = @ + 1]
    /\ loop' = [loop EXCEPT ![l] = "ended"]
    /\ UNCHANGED <<spc, bound, startErr, pending, conns>>
    /\ ServerFrame

\* Accept returns an error: the loop logs it and continues
AcceptErr(l) ==
    /\ loop[l] = "accepting"
    /\ acceptErrs[l] < MaxAcceptErrors
    /\ acceptErrs' = [acceptErrs EXCEPT ![l] = @ + 1]
    /\ UNCHANGED <<spc, bound, startErr, loop, pending, conns>>
    /\ ServerFrame

\* a handler goroutine just started for a connection accepted on l, after
\* its loop had logged n accept errors
NewHandler(l, n) ==
    [class |-> l, st |-> "peek", cli |-> "open", up |-> "none", errsBefore |-> n]

\* Accept returns a connection: go handleHTTPSClient / go handleHTTPClient
Accept(l) ==
    /\ loop[l] = "accepting"
    /\ pending[l] > 0
    /\ pending' = [pending EXCEPT ![l] = @ - 1]
    /\ conns' = Append(conns, NewHandler(l, acceptErrs[l]))
    /\ UNCHANGED <<spc, bound, startErr, loop, acceptErrs>>
    /\ ServerFrame

\* the deferred conn.Close() and remoteConn.Close() of a returning handler
Closed(h) ==
    [h EXCEPT !.st = "done", !.cli = "closed",
              !.up = IF h.up = "open" THEN "closed" ELSE h.up]

FinishAll(cs, c) == [d \in DOMAIN cs |-> Closed(cs[d])]

\* handler c returns: only its own sockets are closed
Finish(cs, c) == [cs EXCEPT ![c] = Closed(cs[c])]

OnlyConns == UNCHANGED <<spc, bound, startErr, loop, pending, acceptErrs>> /\ ServerFrame

\* conn.Read of the initial data: it succeeds, or fails or reads nothing
HPeek(c) ==
    /\ c \in 1..Len(conns) /\ conns[c].st = "peek"
    /\ \/ conns' = [conns EXCEPT ![c].st = "route"]
       \/ conns' = Finish(conns, c)
    /\ OnlyConns

\* a host is found and the action is not DROP, or the handler returns
HRoute(c) ==
    /\ c \in 1..Len(conns) /\ conns[c].st = "route"
    /\ \/ conns' = [conns EXCEPT ![c].st = "dial"]
       \/ conns' = Finish(conns, c)
    /\ OnlyConns

\* ConnectDirect / ConnectViaProxy: a connection, a dial failure, or a
\* refused CONNECT (ConnectViaProxy has closed the socket it opened)
HDial(c) ==
    /\ c \in 1..Len(conns) /\ conns[c].st = "dial"
    /\ \/ conns' = [conns EXCEPT ![c].st = "replay", ![c].up = "open"]
       \/ conns' = Finish(conns, c)
       \/ conns' = Finish([conns EXCEPT ![c].up = "closed"], c)
    /\ OnlyConns

\* remoteConn.Write(initialData) succeeds and the relays start, or it fails
HReplay(c) ==
    /\ c \in 1..Len(conns) /\ conns[c].st = "replay"
    /\ \/ conns' = [conns EXCEPT ![c].st = "relay"]
       \/ conns' = Finish(conns, c)
    /\ OnlyConns

\* wg.Wait returns after both relays ended (EOF or an I/O error)
HRelayEnd(c) ==
    /\ c \in 1..Len(conns) /\ conns[c].st = "relay"
    /\ conns' = Finish(conns, c)
    /\ OnlyConns

HandlerStep(c) == HPeek(c) \/ HRoute(c) \/ HDial(c) \/ HReplay(c) \/ HRelayEnd(c)

ServerNext ==
    \/ \E l \in Listeners : Bind(l)
    \/ StartLoops
    \/ \E l \in Listeners : Arrive(l)
    \/ \E l \in Listeners : AcceptErr(l)
    \/ \E l \in Listeners : Accept(l)
    \/ \E c \in ConnIds : HPeek(c)
    \/ \E c \in ConnIds : HRoute(c)
    \/ \E c \in ConnIds : HDial(c)
    \/ \E c \in ConnIds : HReplay(c)
    \/ \E c \in ConnIds : HRelayEnd(c)

SpecServer == ServerInit /\ [][ServerNext]_vars

----------------------------------------------------------------------------
(* Upstream dialer: internal/proxy/proxy.go                                *)

BUFFER_SIZE == 4096
DEFAULT_HTTPS_PORT == 443

Min(a, b) == IF a < b THEN a ELSE b

\* net.JoinHostPort
JoinHostPort(h, port) ==
    IF \E i \in 1..Len(h) : h[i] \in {":", "%"}
    THEN <<"[">> \o h \o <<"]", ":">> \o port
    ELSE h \o <<":">> \o port

\* the text of the CONNECT request (fmt.Sprintf)
connectRequestNoPort(tHost, tPort, cIP) ==
    <<"C", "O", "N", "N", "E", "C", "T", " ">> \o tHost \o <<":">> \o Itoa(tPort) \o <<" ", "H", "T", "T", "P", "/", "1", ".", "1">> \o CRLF
    \o HostPrefix \o tHost \o CRLF
    \o <<"X", "-", "F", "o", "r", "w", "a", "r", "d", "e", "d", "-", "F", "o", "r", ":", " ">> \o cIP \o CRLF
    \o <<"F", "o", "r", "w", "a", "r", "d", "e", "d", ":", " ", "f", "o", "r", "=">> \o cIP \o CRLF
    \o CRLF

connectRequest(tHost, tPort, cIP) ==
    <<"C", "O", "N", "N", "E", "C", "T", " ">> \o tHost \o <<":">> \o Itoa(tPort) \o <<" ", "H", "T", "T", "P", "/", "1", ".", "1">> \o CRLF
    \o HostPrefix \o tHost \o <<":">> \o Itoa(tPort) \o CRLF
    \o <<"X", "-", "F", "o", "r", "w", "a", "r", "d", "e", "d", "-", "F", "o", "r", ":", " ">> \o cIP \o CRLF
    \o <<"F", "o", "r", "w", "a", "r", "d", "e", "d", ":", " ", "f", "o", "r", "=">> \o cIP \o CRLF
    \o CRLF

HTTP200 == <<"H", "T", "T", "P", "/", "1", ".", "1", " ", "2", "0", "0">>

StatusAcceptedAny(resp) == HasPrefix(resp, <<"H", "T", "T", "P", "/", "1", ".">>)

StatusRejected200(resp) == ~HasPrefix(resp, HTTP200)

\* the test on the status line: strings.HasPrefix(response, "HTTP/1.1 200")
StatusAccepted(resp) == HasPrefix(resp, HTTP200)

LF == 10

\* bufio.Reader: a complete line is buffered
LineBuffered(buf) == IndexOf(buf, LF) # 0

BufLine(buf) == SubSeq(buf, 1, IndexOf(buf, LF))

BufRest(buf) == Tail2(buf, IndexOf(buf, LF) + 1)

----------------------------------------------------------------------------
(* Connection handler: internal/server (handleHTTPSClient,                 *)
(* handleHTTPClient, proxyConnection) and the relay proxy.Pipe             *)

\* peer address of the accepted socket
ClientAddr == [ip |-> <<"1", "0", ".", "0", ".", "0", ".", "5">>, port |-> 40000]

\* net.TCPAddr.String()
RemoteAddrString == JoinHostPort(ClientAddr.ip, Itoa(ClientAddr.port))

\* outcomes of getOriginalDst
OrigDstResults ==
    { [ok |-> TRUE, ip |-> <<"1", "9", "2", ".", "0", ".", "2", ".", "7">>, port |-> 8443],
      [ok |-> FALSE, ip |-> <<>>, port |-> 0] }

SniName == <<97, 98>>

HelloBytes == ClientHello(SniName)

AppBytes == <<201, 202>>

\* what a client sends, segment by segment
ClientScripts ==
    { <<HelloBytes, AppBytes>>,
      <<HelloBytes \o <<201>>, <<202>>>>,
      <<SubSeq(HelloBytes, 1, 40), Tail2(HelloBytes, 41), AppBytes>>,
      <<<<7, 8, 9>>, AppBytes>>,
      <<GetRequest(HostPrefix \o <<"a", "b", ":", "8", "1">> \o CRLF), AppBytes>>,
      <<GetRequest(HostPrefix \o <<"b">> \o CRLF)>>,
      <<GetRequest(<<>>)>> }

SrvBytes == <<150, 151>>

\* what the upstream (the proxy dialed, or the target) sends, segment by segment
UpstreamScripts ==
    { <<BytesOf(<<"H", "T", "T", "P", "/", "1", ".", "1", " ", "2", "0", "0", " ", "O", "K", "\r", "\n", "\r", "\n">>), SrvBytes>>,
      <<BytesOf(<<"H", "T", "T", "P", "/", "1", ".", "1", " ", "2", "0", "0", " ", "O", "K", "\r", "\n", "\r", "\n">>) \o SrvBytes>>,
      <<BytesOf(<<"H", "T", "T", "P", "/", "1", ".", "1", " ", "2", "0", "0", " ", "O", "K", "\r", "\n">>), BytesOf(<<"X", ":", " ", "y", "\r", "\n", "\r", "\n">>) \o <<150>>, <<151>>>>,
      <<BytesOf(<<"H", "T", "T", "P", "/", "1", ".", "1", " ", "2", "0", "0", " ", "O", "K", "\r", "\n">>)>>,
      <<BytesOf(<<"H", "T", "T", "P", "/", "1", ".", "1", " ", "5", "0", "2", " ", "B", "a", "d", "\r", "\n", "\r", "\n">>)>>,
      <<BytesOf(<<"H", "T", "T", "P", "/", "1", ".", "0", " ", "2", "0", "0", " ", "O", "K", "\r", "\n", "\r", "\n">>)>>,
      <<BytesOf(<<"H", "T", "T", "P", "/", "1", ".", "1", " ", "2", "0", "0", " ", "O", "K">>)>>,
      <<SrvBytes>> }

HandlerRules ==
    { <<[Pattern |-> <<".", "*">>, Proxy |-> DIRECT]>>,
      <<[Pattern |-> <<"^", "a">>, Proxy |-> <<"q", ":", "8", "0">>],
        [Pattern |-> <<".", "*">>, Proxy |-> DROP]>>,
      <<[Pattern |-> <<"^", "1">>, Proxy |-> DIRECT],
        [Pattern |-> <<".", "*">>, Proxy |-> <<"p">>]>>,
      <<[Pattern |-> <<".", "*">>, Proxy |-> <<":", "8", "0">>]>> }

HandlerInit ==
    /\ RulesIdle
    /\ pc = "accepted"
    /\ listener \in {"https", "http"}
    /\ cfgRules \in HandlerRules
    /\ cliSegs \in ClientScripts
    /\ cliSent = <<>> /\ cliIn = <<>> /\ cliFin = FALSE
    /\ cliOut = <<>> /\ cliClosed = FALSE
    /\ upState = "none" /\ upSegs = <<>> /\ upSent = <<>> /\ upIn = <<>>
    /\ upFin = FALSE /\ upOut = <<>> /\ upExpired = FALSE
    /\ clientIP = <<>> /\ originalIP = <<>> /\ originalPort = 0
    /\ initialData = <<>> /\ targetHost = <<>> /\ targetPort = 0
    /\ proxyAction = NoAction
    /\ dials = <<>>
    /\ remoteConn = "none" /\ tcpOK = FALSE /\ reqOK = FALSE /\ statusRead = FALSE
    /\ rdBuf = <<>> /\ response = <<>> /\ reqLen = 0 /\ hsEnd = 0
    /\ ppc = [p \in Pipes |-> "idle"] /\ pbuf = [p \in Pipes |-> <<>>]
    /\ wg = 0 /\ ctxDone = FALSE
    /\ stall = {}

\* a Read on the client socket returns data / returns an error or EOF
CliReadable == ~cliClosed /\ cliIn # <<>>

CliReadErr == cliClosed \/ (cliIn = <<>> /\ cliFin)

\* a Read on the upstream socket returns data / returns an error or EOF
UpReadable == upState = "open" /\ ~upExpired /\ upIn # <<>>

UpReadErr == upState = "closed" \/ upExpired \/ (upIn = <<>> /\ upFin)

\* a Write on the upstream socket can succeed
UpWritable == upState = "open" /\ ~upExpired

\* handleHTTPSClient / handleHTTPClient return: the deferred conn.Close()
CloseClient == pc' = "done" /\ cliClosed' = TRUE

\* proxyConnection returns to the handler that called it; it never closes
\* the client connection itself
ProxyConnectionReturns == pc' = "returned" /\ cliClosed' = cliClosed

OriginalPortNoDefault(od) == od.port

\* handleHTTPSClient: originalPort starts as DEFAULT_HTTPS_PORT and is
\* overwritten when getOriginalDst succeeds
OriginalPort(od) == IF od.ok THEN od.port ELSE DEFAULT_HTTPS_PORT

\* entry of handleHTTPSClient / handleHTTPClient up to the first Read
\* (handleHTTPClient discards the port of getOriginalDst)
HandlerStart ==
    /\ pc = "accepted"
    /\ \E od \in OrigDstResults :
        /\ originalIP' = IF od.ok THEN od.ip ELSE ClientAddr.ip
        /\ originalPort' = IF listener = "https" THEN OriginalPort(od) ELSE 0
    /\ clientIP' = RemoteAddrString
    /\ pc' = "peek"
    /\ UNCHANGED <<rvars, stall, listener, cfgRules, cvars, uvars, initialData,
                   targetHost, targetPort, proxyAction, dials, dvars, pvars>>

\* n, err := conn.Read(buf); if err != nil || n == 0 { return }
Peek ==
    /\ pc = "peek"
    /\ \/ /\ CliReadable
          /\ LET n == Min(Len(cliIn), BUFFER_SIZE)
             IN  /\ initialData' = SubSeq(cliIn, 1, n)
                 /\ cliIn' = Tail2(cliIn, n + 1)
          /\ pc' = "resolve"
          /\ UNCHANGED cliClosed
       \/ /\ CliReadErr
          /\ CloseClient
          /\ UNCHANGED <<initialData, cliIn>>
    /\ UNCHANGED <<rvars, stall, listener, cfgRules, cliSegs, cliSent, cliFin, cliOut,
                   uvars, clientIP, originalIP, originalPort,
                   targetHost, targetPort, proxyAction, dials, dvars, pvars>>

SniOnly(sni, ip) == sni

\* handleHTTPSClient: the host name is the SNI, or the original destination
\* IP when no SNI was found
SniOrOriginalIP(sni, ip) == IF sni = <<>> THEN ip ELSE sni

HttpHostOrOriginalIP(h, ip) == IF h = <<>> THEN ip ELSE h

\* handleHTTPClient: the host name is the Host header and nothing else
HttpHostName(h, ip) == h

\* host extraction and rule resolution, up to the call of proxyConnection
ResolveHost ==
    /\ pc = "resolve"
    /\ LET sni  == ParseSNI(initialData)
           hp   == ParseHTTPHost(initialData)
           name == IF listener = "https"
                   THEN SniOrOriginalIP(sni, originalIP)
                   ELSE HttpHostName(hp.host, originalIP)
       IN  IF name = <<>>
           THEN /\ CloseClient
                /\ UNCHANGED <<targetHost, targetPort, proxyAction>>
           ELSE /\ targetHost' = name
                /\ targetPort' = IF listener = "https" THEN originalPort ELSE hp.port
                /\ proxyAction' = FindProxyForHost(name, cfgRules)
                /\ pc' = "dispatch"
                /\ UNCHANGED cliClosed
    /\ UNCHANGED <<rvars, stall, listener, cfgRules, cliSegs, cliSent, cliIn, cliFin, cliOut,
                   uvars, clientIP, originalIP, originalPort, initialData,
                   dials, dvars, pvars>>

DispatchKindDropDials(a) ==
    IF a.Type = "PROXY" /\ a.Host # <<>> /\ a.Port # 0 THEN "proxy" ELSE "direct"

\* the branch proxyConnection takes for an action
DispatchKind(a) ==
    IF a.Type = "DROP" THEN "drop"
    ELSE IF a.Type = "PROXY" /\ a.Host # <<>> /\ a.Port # 0 THEN "proxy"
    ELSE "direct"

\* proxyConnection up to the choice of the dialer
Dispatch ==
    /\ pc = "dispatch"
    /\ originalIP' = IF originalIP = <<>> THEN ClientAddr.ip ELSE originalIP
    /\ IF DispatchKind(proxyAction) = "drop"
       THEN ProxyConnectionReturns
       ELSE /\ pc' = IF DispatchKind(proxyAction) = "proxy" THEN "cvpDial" ELSE "directDial"
            /\ UNCHANGED cliClosed
    /\ UNCHANGED <<rvars, stall, listener, cfgRules, cliSegs, cliSent, cliIn, cliFin, cliOut,
                   uvars, clientIP, originalPort, initialData,
                   targetHost, targetPort, proxyAction, dials, dvars, pvars>>

DirectAddrDefaultPort(h, port) == JoinHostPort(h, Itoa(DEFAULT_HTTPS_PORT))

\* the address ConnectDirect dials
DirectAddr(h, port) == JoinHostPort(h, Itoa(port))

DialStepRetry(fn, addr, next) ==
    /\ dials' = Append(dials, [fn |-> fn, addr |-> addr])
    /\ \E outcome \in {"refused", "deadlineErr", "ok"} :
        /\ tcpOK' = (outcome # "refused")
        /\ IF outcome = "ok"
           THEN /\ upState' = "open"
                /\ upSegs' \in UpstreamScripts
                /\ remoteConn' = IF next = "replay" THEN "conn" ELSE "none"
                /\ pc' = next
                /\ UNCHANGED cliClosed
           ELSE /\ upState' = IF outcome = "refused" THEN "none" ELSE "closed"
                /\ remoteConn' = "err"
                /\ pc' = pc /\ cliClosed' = cliClosed
                /\ UNCHANGED upSegs
    /\ UNCHANGED <<rvars, stall, listener, cfgRules, cliSegs, cliSent, cliIn, cliFin, cliOut,
                   upSent, upIn, upFin, upOut, upExpired, lvars,
                   reqOK, statusRead, rdBuf, response, reqLen, hsEnd, pvars>>

\* net.DialTimeout and SetDeadline of ConnectDirect / ConnectViaProxy; a failure
\* makes proxyConnection return ("Connection failed")
DialStep(fn, addr, next) ==
    /\ dials' = Append(dials, [fn |-> fn, addr |-> addr])
    /\ \E outcome \in {"refused", "deadlineErr", "ok"} :
        /\ tcpOK' = (outcome # "refused")
        /\ IF outcome = "ok"
           THEN /\ upState' = "open"
                /\ upSegs' \in UpstreamScripts
                /\ remoteConn' = IF next = "replay" THEN "conn" ELSE "none"
                /\ pc' = next
                /\ UNCHANGED cliClosed
           ELSE /\ upState' = IF outcome = "refused" THEN "none" ELSE "closed"
                /\ remoteConn' = "err"
                /\ ProxyConnectionReturns
                /\ UNCHANGED upSegs
    /\ UNCHANGED <<rvars, stall, listener, cfgRules, cliSegs, cliSent, cliIn, cliFin, cliOut,
                   upSent, upIn, upFin, upOut, upExpired, lvars,
                   reqOK, statusRead, rdBuf, response, reqLen, hsEnd, pvars>>

ConnectDirect ==
    /\ pc = "directDial"
    /\ DialStep("ConnectDirect", DirectAddr(targetHost, targetPort), "replay")

CvpDial ==
    /\ pc = "cvpDial"
    /\ DialStep("ConnectViaProxy",
                JoinHostPort(proxyAction.Host, Itoa(proxyAction.Port)), "cvpWrite")

\* conn.Write([]byte(connectRequest))
CvpWrite ==
    /\ pc = "cvpWrite"
    /\ \E ok \in BOOLEAN :
        /\ ok => UpWritable
        /\ IF ok
           THEN /\ upOut' = upOut \o BytesOf(connectRequest(targetHost, targetPort, clientIP))
                /\ reqLen' = Len(upOut') - Len(upOut)
                /\ reqOK' = TRUE
                /\ pc' = "cvpStatus"
                /\ UNCHANGED <<upState, remoteConn, cliClosed>>
           ELSE /\ upState' = "closed"
                /\ remoteConn' = "err"
                /\ ProxyConnectionReturns
                /\ UNCHANGED <<upOut, reqLen, reqOK>>
    /\ UNCHANGED <<rvars, stall, listener, cfgRules, cliSegs, cliSent, cliIn, cliFin, cliOut,
                   upSegs, upSent, upIn, upFin, upExpired, lvars, dials,
                   tcpOK, statusRead, rdBuf, response, hsEnd, pvars>>

\* bufio.Reader.fill: one conn.Read into the free space of the buffer
CvpFill ==
    /\ pc \in {"cvpStatus", "cvpHeaders"}
    /\ ~LineBuffered(rdBuf)
    /\ UpReadable
    /\ LET n == Min(Len(upIn), BUFFER_SIZE - Len(rdBuf))
       IN  /\ n > 0
           /\ rdBuf' = rdBuf \o SubSeq(upIn, 1, n)
           /\ upIn' = Tail2(upIn, n + 1)
    /\ UNCHANGED <<rvars, stall, pc, listener, cfgRules, cvars,
                   upState, upSegs, upSent, upFin, upOut, upExpired, lvars, dials,
                   remoteConn, tcpOK, reqOK, statusRead, response, reqLen, hsEnd, pvars>>

\* response, err := reader.ReadString('\n') and the test of the status line
CvpStatus ==
    /\ pc = "cvpStatus"
    /\ \/ /\ LineBuffered(rdBuf)
          /\ response' = StringOf(BufLine(rdBuf))
          /\ rdBuf' = BufRest(rdBuf)
          /\ statusRead' = TRUE
          /\ IF StatusAccepted(response')
             THEN /\ pc' = "cvpHeaders"
                  /\ UNCHANGED <<upState, remoteConn, cliClosed>>
             ELSE /\ upState' = "closed"
                  /\ remoteConn' = "err"
                  /\ ProxyConnectionReturns
       \/ /\ ~LineBuffered(rdBuf)
          /\ UpReadErr
          /\ response' = StringOf(rdBuf)
          /\ rdBuf' = <<>>
          /\ upState' = "closed"
          /\ remoteConn' = "err"
          /\ ProxyConnectionReturns
          /\ UNCHANGED statusRead
    /\ UNCHANGED <<rvars, stall, listener, cfgRules, cliSegs, cliSent, cliIn, cliFin, cliOut,
                   upSegs, upSent, upIn, upFin, upOut, upExpired, lvars, dials,
                   tcpOK, reqOK, reqLen, hsEnd, pvars>>

\* the loop that reads the remaining headers, and return conn, nil
CvpHeaders ==
    /\ pc = "cvpHeaders"
    /\ \/ /\ LineBuffered(rdBuf)
          /\ rdBuf' = BufRest(rdBuf)
          /\ IF StringOf(BufLine(rdBuf)) = CRLF
             THEN /\ remoteConn' = "conn"
                  /\ hsEnd' = Len(upSent) - Len(upIn)
                  /\ pc' = "replay"
             ELSE UNCHANGED <<remoteConn, hsEnd, pc>>
       \/ /\ ~LineBuffered(rdBuf)
          /\ UpReadErr
          /\ rdBuf' = <<>>
          /\ remoteConn' = "conn"
          /\ hsEnd' = Len(upSent) - Len(upIn)
          /\ pc' = "replay"
    /\ UNCHANGED <<rvars, stall, listener, cfgRules, cvars, uvars, lvars, dials,
                   tcpOK, reqOK, statusRead, response, reqLen, pvars>>

ReplayDataNone(d) == <<>>

\* what proxyConnection writes to the upstream before relaying
ReplayData(d) == IF Len(d) > 0 THEN d ELSE <<>>

\* proxyConnection without the deferred remoteConn.Close(): a failed Write
\* of the peeked bytes leaves the dialed socket open
ReplayLeaksUpstream ==
    /\ pc = "replay"
    /\ \E ok \in BOOLEAN :
        /\ ok => UpWritable
        /\ IF ok
           THEN /\ upOut' = upOut \o ReplayData(initialData)
                /\ ctxDone' = FALSE
                /\ wg' = 2
                /\ ppc' = [p \in Pipes |-> "select"]
                /\ pc' = "wait"
                /\ UNCHANGED <<upState, cliClosed>>
           ELSE /\ ProxyConnectionReturns
                /\ UNCHANGED <<upState, upOut, ctxDone, wg, ppc>>
    /\ UNCHANGED <<rvars, stall, listener, cfgRules, cliSegs, cliSent, cliIn, cliFin, cliOut,
                   upSegs, upSent, upIn, upFin, upExpired, lvars, dials, dvars, pbuf>>

\* remoteConn.Write(initialData), then the two Pipe goroutines are started
Replay ==
    /\ pc = "replay"
    /\ \E ok \in BOOLEAN :
        /\ ok => UpWritable
        /\ IF ok
           THEN /\ upOut' = upOut \o ReplayData(initialData)
                /\ ctxDone' = FALSE
                /\ wg' = 2
                /\ ppc' = [p \in Pipes |-> "select"]
                /\ pc' = "wait"
                /\ UNCHANGED <<upState, cliClosed>>
           ELSE /\ upState' = "closed"
                /\ ProxyConnectionReturns
                /\ UNCHANGED <<upOut, ctxDone, wg, ppc>>
    /\ UNCHANGED <<rvars, stall, listener, cfgRules, cliSegs, cliSent, cliIn, cliFin, cliOut,
                   upSegs, upSent, upIn, upFin, upExpired, lvars, dials, dvars, pbuf>>

\* Pipe: select { case <-ctx.Done(): return; default: ... }
PipeSelect(p) ==
    /\ ppc[p] = "select"
    /\ ppc' = [ppc EXCEPT ![p] = IF ctxDone THEN "exit" ELSE "read"]
    /\ UNCHANGED <<rvars, stall, pc, listener, cfgRules, cvars, uvars, lvars, dials, dvars,
                   pbuf, wg, ctxDone>>

\* Pipe: n, err := src.Read(buf); the client is the source of c2u, the
\* upstream the source of u2c
PipeRead(p) ==
    /\ ppc[p] = "read"
    /\ IF p = "c2u"
       THEN /\ \/ /\ CliReadable
                  /\ LET n == Min(Len(cliIn), BUFFER_SIZE)
                     IN  /\ pbuf' = [pbuf EXCEPT ![p] = SubSeq(cliIn, 1, n)]
                         /\ cliIn' = Tail2(cliIn, n + 1)
                  /\ ppc' = [ppc EXCEPT ![p] = "write"]
               \/ /\ CliReadErr
                  /\ ppc' = [ppc EXCEPT ![p] = "exit"]
                  /\ UNCHANGED <<pbuf, cliIn>>
            /\ UNCHANGED upIn
       ELSE /\ \/ /\ UpReadable
                  /\ LET n == Min(Len(upIn), BUFFER_SIZE)
                     IN  /\ pbuf' = [pbuf EXCEPT ![p] = SubSeq(upIn, 1, n)]
                         /\ upIn' = Tail2(upIn, n + 1)
                  /\ ppc' = [ppc EXCEPT ![p] = "write"]
               \/ /\ UpReadErr
                  /\ ppc' = [ppc EXCEPT ![p] = "exit"]
                  /\ UNCHANGED <<pbuf, upIn>>
            /\ UNCHANGED cliIn
    /\ UNCHANGED <<rvars, stall, pc, listener, cfgRules, cliSegs, cliSent, cliFin, cliOut,
                   cliClosed, upState, upSegs, upSent, upFin, upOut, upExpired,
                   lvars, dials, dvars, wg, ctxDone>>

\* the peer a Pipe writes to
Dst(p) == IF p = "c2u" THEN "upstream" ELSE "client"

\* dst of a Pipe accepts a Write: the socket is usable and the peer reads
DstWritable(p) ==
    /\ IF p = "c2u" THEN UpWritable ELSE ~cliClosed
    /\ Dst(p) \notin stall

\* a Write on dst of a Pipe must fail: the socket was closed by the other
\* goroutine or its deadline has passed
DstBroken(p) == IF p = "c2u" THEN ~UpWritable ELSE cliClosed

WrittenSkipFirst(buf) == Tail(buf)

\* buf[:n] handed to dst.Write: the chunk just read
Written(buf) == buf

\* Pipe: _, err = dst.Write(buf[:n]); the Write may also fail at any time
\* (connection reset by the peer)
PipeWrite(p) ==
    /\ ppc[p] = "write"
    /\ \E ok \in BOOLEAN :
        /\ ok => DstWritable(p)
        /\ IF ok
           THEN /\ IF p = "c2u"
                   THEN upOut' = upOut \o Written(pbuf[p]) /\ UNCHANGED cliOut
                   ELSE cliOut' = cliOut \o Written(pbuf[p]) /\ UNCHANGED upOut
                /\ ppc' = [ppc EXCEPT ![p] = "select"]
           ELSE /\ ppc' = [ppc EXCEPT ![p] = "exit"]
                /\ UNCHANGED <<upOut, cliOut>>
    /\ UNCHANGED <<rvars, stall, pc, listener, cfgRules, cliSegs, cliSent, cliIn, cliFin,
                   cliClosed, upState, upSegs, upSent, upIn, upFin, upExpired,
                   lvars, dials, dvars, pbuf, wg, ctxDone>>

\* Pipe returning with wg.Done() only, its dst left open
PipeExitNoClose(p) ==
    /\ ppc[p] = "exit"
    /\ wg' = wg - 1
    /\ ppc' = [ppc EXCEPT ![p] = "done"]
    /\ UNCHANGED <<rvars, stall, pc, listener, cfgRules, cvars, uvars,
                   lvars, dials, dvars, pbuf, ctxDone>>

\* Pipe returns: the deferred dst.Close() and wg.Done()
PipeExit(p) ==
    /\ ppc[p] = "exit"
    /\ IF p = "c2u"
       THEN upState' = "closed" /\ UNCHANGED cliClosed
       ELSE cliClosed' = TRUE /\ UNCHANGED upState
    /\ wg' = wg - 1
    /\ ppc' = [ppc EXCEPT ![p] = "done"]
    /\ UNCHANGED <<rvars, stall, pc, listener, cfgRules, cliSegs, cliSent, cliIn, cliFin, cliOut,
                   upSegs, upSent, upIn, upFin, upOut, upExpired,
                   lvars, dials, dvars, pbuf, ctxDone>>

\* wg.Wait() returns; deferred cancel() and remoteConn.Close()
Wait ==
    /\ pc = "wait"
    /\ wg = 0
    /\ ctxDone' = TRUE
    /\ upState' = "closed"
    /\ ProxyConnectionReturns
    /\ UNCHANGED <<rvars, stall, listener, cfgRules, cliSegs, cliSent, cliIn, cliFin, cliOut,
                   upSegs, upSent, upIn, upFin, upOut, upExpired,
                   lvars, dials, dvars, ppc, pbuf, wg>>

\* proxyConnection has returned: handleHTTPSClient / handleHTTPClient return
\* and their deferred conn.Close() runs
HandlerReturn ==
    /\ pc = "returned"
    /\ CloseClient
    /\ UNCHANGED <<rvars, stall, listener, cfgRules, cliSegs, cliSent, cliIn, cliFin, cliOut,
                   uvars, lvars, dials, dvars, pvars>>

\* the client's next segment arrives
ClientSend ==
    /\ pc \notin {"none", "done"}
    /\ ~cliClosed /\ ~cliFin
    /\ cliSegs # <<>>
    /\ cliIn' = cliIn \o Head(cliSegs)
    /\ cliSent' = cliSent \o Head(cliSegs)
    /\ cliSegs' = Tail(cliSegs)
    /\ UNCHANGED <<rvars, stall, pc, listener, cfgRules, cliFin, cliOut, cliClosed,
                   uvars, lvars, dials, dvars, pvars>>

\* the client closes its side
ClientClose ==
    /\ pc \notin {"none", "done"}
    /\ ~cliClosed /\ ~cliFin
    /\ cliFin' = TRUE
    /\ UNCHANGED <<rvars, stall, pc, listener, cfgRules, cliSegs, cliSent, cliIn, cliOut,
                   cliClosed, uvars, lvars, dials, dvars, pvars>>

\* the upstream's next segment arrives
UpstreamSend ==
    /\ upState = "open" /\ ~upFin
    /\ upSegs # <<>>
    /\ upIn' = upIn \o Head(upSegs)
    /\ upSent' = upSent \o Head(upSegs)
    /\ upSegs' = Tail(upSegs)
    /\ UNCHANGED <<rvars, stall, pc, listener, cfgRules, cvars, upState, upFin, upOut,
                   upExpired, lvars, dials, dvars, pvars>>

\* the upstream closes its side
UpstreamClose ==
    /\ upState = "open" /\ ~upFin
    /\ upFin' = TRUE
    /\ UNCHANGED <<rvars, stall, pc, listener, cfgRules, cvars, upState, upSegs, upSent,
                   upIn, upOut, upExpired, lvars, dials, dvars, pvars>>

\* a peer stops reading what the proxy sends to it (its receive window
\* fills up): from then on a Write to it blocks
PeerStalls ==
    /\ pc \in {"wait", "unit"}
    /\ \E peer \in {"client", "upstream"} :
        /\ peer \notin stall
        /\ stall' = stall \cup {peer}
    /\ UNCHANGED <<rvars, pc, listener, cfgRules, cvars, uvars, lvars, dials, dvars, pvars>>

\* the deadline set on the upstream socket at dial time passes
DeadlinePasses ==
    /\ upState = "open" /\ ~upExpired
    /\ upExpired' = TRUE
    /\ UNCHANGED <<rvars, stall, pc, listener, cfgRules, cvars, upState, upSegs, upSent,
                   upIn, upFin, upOut, lvars, dials, dvars, pvars>>

Next ==
    \/ HandlerStart
    \/ Peek
    \/ ResolveHost
    \/ Dispatch
    \/ ConnectDirect
    \/ CvpDial
    \/ CvpWrite
    \/ CvpFill
    \/ CvpStatus
    \/ CvpHeaders
    \/ Replay
    \/ \E p \in Pipes : PipeSelect(p)
    \/ \E p \in Pipes : PipeRead(p)
    \/ \E p \in Pipes : PipeWrite(p)
    \/ \E p \in Pipes : PipeExit(p)
    \/ Wait
    \/ HandlerReturn
    \/ ClientSend
    \/ ClientClose
    \/ UpstreamSend
    \/ UpstreamClose
    \/ DeadlinePasses

Spec == HandlerInit /\ [][Next]_vars

\* The handler up to the return of its first Read, on its own.
PeekNext ==
    \/ HandlerStart
    \/ Peek
    \/ ClientSend
    \/ ClientClose

\* the handler goroutine is scheduled whenever it can take a step: its Read
\* returns once data, end-of-stream or an error is there.  Nothing obliges
\* the client to send or to close.
PeekFairness == WF_vars(HandlerStart) /\ WF_vars(Peek)

SpecPeek == HandlerInit /\ [][PeekNext]_vars /\ PeekFairness

----------------------------------------------------------------------------
(* C1: FindProxyForHost returns the action of the lowest-index rule whose  *)
(* pattern matches the host, and DIRECT when no rule matches; a later      *)
(* matching rule never overrides an earlier one.                           *)

\* the pattern of rule j matches the host (an uncompilable pattern matches
\* nothing)
Matches(j) == RegexCompiles(rules[j].Pattern) /\ RegexMatch(rules[j].Pattern, host)

C1_FirstMatchWins ==
    rpc = "returned" =>
        IF \E j \in 1..Len(rules) : Matches(j)
        THEN \E j \in 1..Len(rules) :
                /\ Matches(j)
                /\ \A k \in 1..(j - 1) : ~Matches(k)
                /\ action = RuleAction(rules[j])
        ELSE action.Type = "DIRECT"

\* two rules with different actions both match and the first one was taken
C1_Witness ==
    /\ rpc = "returned"
    /\ Len(rules) = 2
    /\ Matches(1) /\ Matches(2)
    /\ RuleAction(rules[1]) # RuleAction(rules[2])
    /\ action = RuleAction(rules[1])

\* One Pipe started on its own with a context its caller may cancel (as the
\* tests of Pipe do): c2u reads a socket that has no deadline, u2c a socket
\* dialed by ConnectDirect / ConnectViaProxy, which has one.
PipeInit ==
    /\ RulesIdle
    /\ pc = "unit" /\ listener = "none" /\ cfgRules = <<>>
    /\ cliSegs \in ClientScripts
    /\ cliSent = <<>> /\ cliIn = <<>> /\ cliFin = FALSE
    /\ cliOut = <<>> /\ cliClosed = FALSE
    /\ upState = "open" /\ upSegs \in UpstreamScripts /\ upSent = <<>> /\ upIn = <<>>
    /\ upFin = FALSE /\ upOut = <<>> /\ upExpired = FALSE
    /\ clientIP = <<>> /\ originalIP = <<>> /\ originalPort = 0
    /\ initialData = <<>> /\ targetHost = <<>> /\ targetPort = 0
    /\ proxyAction = NoAction
    /\ dials = <<>>
    /\ remoteConn = "conn" /\ tcpOK = TRUE /\ reqOK = FALSE /\ statusRead = FALSE
    /\ rdBuf = <<>> /\ response = <<>> /\ reqLen = 0 /\ hsEnd = 0
    /\ \E p0 \in Pipes : ppc = [p \in Pipes |-> IF p = p0 THEN "select" ELSE "idle"]
    /\ pbuf = [p \in Pipes |-> <<>>]
    /\ wg = 1 /\ ctxDone = FALSE
    /\ stall = {}

\* the caller of Pipe calls cancel()
Cancel ==
    /\ pc = "unit"
    /\ ~ctxDone
    /\ ctxDone' = TRUE
    /\ UNCHANGED <<rvars, stall, pc, listener, cfgRules, cvars, uvars, lvars, dials, dvars,
                   ppc, pbuf, wg>>

PipeNext ==
    \/ \E p \in Pipes : PipeSelect(p)
    \/ \E p \in Pipes : PipeRead(p)
    \/ \E p \in Pipes : PipeWrite(p)
    \/ \E p \in Pipes : PipeExit(p)
    \/ Cancel
    \/ ClientSend
    \/ ClientClose
    \/ UpstreamSend
    \/ UpstreamClose
    \/ DeadlinePasses

\* the goroutine running Pipe is scheduled whenever it can take a step, and
\* time passes; nothing obliges a peer to send or to close
PipeFairness ==
    /\ \A p \in Pipes : WF_vars(PipeSelect(p))
    /\ \A p \in Pipes : WF_vars(PipeRead(p))
    /\ \A p \in Pipes : WF_vars(PipeWrite(p))
    /\ \A p \in Pipes : WF_vars(PipeExit(p))
    /\ WF_vars(DeadlinePasses)

SpecPipe == PipeInit /\ [][PipeNext]_vars /\ PipeFairness

\* The relay phase of one connection on its own: the state proxyConnection is
\* in right after the peeked ClientHello was written to a directly dialed
\* upstream and both Pipe goroutines were started.
RelayInit ==
    /\ RulesIdle
    /\ pc = "wait" /\ listener = "https"
    /\ cfgRules = <<[Pattern |-> <<".", "*">>, Proxy |-> DIRECT]>>
    /\ cliSegs = <<AppBytes>>
    /\ cliSent = HelloBytes /\ cliIn = <<>> /\ cliFin = FALSE
    /\ cliOut = <<>> /\ cliClosed = FALSE
    /\ upState = "open" /\ upSegs \in UpstreamScripts /\ upSent = <<>> /\ upIn = <<>>
    /\ upFin = FALSE /\ upOut = ReplayData(HelloBytes) /\ upExpired = FALSE
    /\ clientIP = RemoteAddrString
    /\ \E od \in OrigDstResults :
        /\ od.ok
        /\ originalIP = od.ip /\ originalPort = od.port /\ targetPort = od.port
        /\ dials = <<[fn |-> "ConnectDirect",
                      addr |-> DirectAddr(StringOf(SniName), od.port)]>>
    /\ initialData = HelloBytes /\ targetHost = StringOf(SniName)
    /\ proxyAction = FindProxyForHost(StringOf(SniName), cfgRules)
    /\ remoteConn = "conn" /\ tcpOK = TRUE /\ reqOK = FALSE /\ statusRead = FALSE
    /\ rdBuf = <<>> /\ response = <<>> /\ reqLen = 0 /\ hsEnd = 0
    /\ ppc = [p \in Pipes |-> "select"] /\ pbuf = [p \in Pipes |-> <<>>]
    /\ wg = 2 /\ ctxDone = FALSE
    /\ stall = {}

RelayNext ==
    \/ \E p \in Pipes : PipeSelect(p)
    \/ \E p \in Pipes : PipeRead(p)
    \/ \E p \in Pipes : PipeWrite(p)
    \/ \E p \in Pipes : PipeExit(p)
    \/ Wait
    \/ HandlerReturn
    \/ ClientSend
    \/ ClientClose
    \/ UpstreamSend
    \/ UpstreamClose
    \/ DeadlinePasses
    \/ PeerStalls

\* every goroutine is scheduled whenever it can take a step and time passes.
\* A Read returns once data, end-of-stream or an error is there; a Write
\* returns once the peer takes the bytes or the socket is broken, and stays
\* blocked otherwise.  Nothing obliges a peer to send, to read or to close.
RelayFairness ==
    /\ \A p \in Pipes : WF_vars(PipeSelect(p))
    /\ \A p \in Pipes : WF_vars(PipeRead(p))
    /\ \A p \in Pipes : WF_vars((DstWritable(p) \/ DstBroken(p)) /\ PipeWrite(p))
    /\ \A p \in Pipes : WF_vars(PipeExit(p))
    /\ WF_vars(Wait)
    /\ WF_vars(HandlerReturn)
    /\ WF_vars(DeadlinePasses)

SpecRelay == RelayInit /\ [][RelayNext]_vars /\ RelayFairness

----------------------------------------------------------------------------
(* Quantities the claims about a connection refer to                       *)

\* the host name and port the handler is expected to target, recomputed from
\* the peeked bytes and the original destination
ExpectedHost ==
    IF listener = "https"
    THEN (IF ParseSNI(initialData) # <<>> THEN ParseSNI(initialData) ELSE originalIP)
    ELSE ParseHTTPHost(initialData).host

ExpectedPort ==
    IF listener = "https" THEN originalPort ELSE ParseHTTPHost(initialData).port

\* host and port a dial address denotes (what net.Dial makes of it)
DialTarget(addr) ==
    LET c == LastColon(addr)
        h == SubSeq(addr, 1, c - 1)
    IN  [host |-> IF h # <<>> /\ h[1] = "[" /\ h[Len(h)] = "]"
                  THEN SubSeq(h, 2, Len(h) - 1) ELSE h,
         port |-> Tail2(addr, c + 1)]

\* the CONNECT request as written, and what follows it on the upstream socket
RequestSent == StringOf(SubSeq(upOut, 1, reqLen))

PostHandshake == Tail2(upOut, reqLen + 1)

Relaying == ppc["c2u"] # "idle"

ViaProxy == dials # <<>> /\ dials[1].fn = "ConnectViaProxy"

\* first line of what the upstream has sent
FirstLineSent == ReadLine(StringOf(upSent)).line

RECURSIVE HeaderEndFrom(_, _)
\* number of bytes of s up to and including the first CRLF-only line found
\* from offset k on (0 when there is none)
HeaderEndFrom(s, k) ==
    LET r == ReadLine(Tail2(s, k + 1))
    IN  IF r.err THEN 0
        ELSE IF r.line = CRLF THEN k + Len(r.line)
        ELSE HeaderEndFrom(s, k + Len(r.line))

\* end of the response headers in the upstream's byte stream: the status
\* line is skipped, then the first CRLF-only line ends the headers
HeaderEnd ==
    LET str == StringOf(upSent)
        st  == ReadLine(str)
    IN  IF st.err THEN 0 ELSE HeaderEndFrom(str, Len(st.line))

----------------------------------------------------------------------------
(* C2: the bytes written to the upstream after any CONNECT request begin   *)
(* with the peek buffer, exactly once and in order, and no later client    *)
(* byte is written before the whole peek buffer.                           *)

C2_PeekReplayedFirst ==
    /\ PostHandshake # <<>> => IsPrefixOf(initialData, PostHandshake)
    /\ IsPrefixOf(PostHandshake, cliSent)
    /\ Relaying => initialData # <<>> /\ IsPrefixOf(initialData, PostHandshake)

\* relaying through a proxy, and bytes read after the peek have been forwarded
C2_Witness ==
    /\ Relaying
    /\ reqLen > 0
    /\ Len(PostHandshake) > Len(initialData)

----------------------------------------------------------------------------
(* C3: when the resolved action is Drop, no upstream connection is ever    *)
(* attempted, no byte is written to the client, and the client connection  *)
(* is closed as soon as the action has been dispatched.                    *)

C3_DropDialsNothing ==
    proxyAction.Type = "DROP" =>
        /\ dials = <<>>
        /\ upState = "none"
        /\ upOut = <<>>
        /\ cliOut = <<>>
        /\ pc \in {"dispatch", "returned", "done"}
        /\ pc = "done" => cliClosed

C3_Witness ==
    /\ proxyAction.Type = "DROP"
    /\ pc = "done"
    /\ cliClosed
    /\ initialData # <<>>

----------------------------------------------------------------------------
(* C4: ConnectViaProxy returns a socket if and only if the TCP connect and *)
(* the request write succeeded and the first response line, read without   *)
(* error, begins with "HTTP/1.1 200"; otherwise it returns an error and    *)
(* the socket it opened has been closed.                                   *)

CvpReturned == ViaProxy /\ remoteConn # "none"

C4_SocketIff200 ==
    CvpReturned =>
        /\ remoteConn = "conn" <=>
              (tcpOK /\ reqOK /\ statusRead /\ HasPrefix(FirstLineSent, HTTP200))
        /\ remoteConn = "err" => upState # "open"
        /\ remoteConn = "err" /\ tcpOK => upState = "closed"

\* a socket was returned after a 200 line
C4_Witness ==
    /\ CvpReturned
    /\ remoteConn = "conn"
    /\ pc = "replay"
    /\ HasPrefix(FirstLineSent, HTTP200)

----------------------------------------------------------------------------
(* C5: when the proxy answers the CONNECT request with a status line that  *)
(* does not begin with "HTTP/1.1 200", none of the peeked bytes is written *)
(* to the upstream, nothing is written to the client, no relay is started  *)
(* and the client connection is closed.                                    *)

Refused == ViaProxy /\ statusRead /\ ~HasPrefix(FirstLineSent, HTTP200)

C5_RefusedConnectForwardsNothing ==
    Refused =>
        /\ PostHandshake = <<>>
        /\ cliOut = <<>>
        /\ \A p \in Pipes : ppc[p] = "idle"
        /\ wg = 0
        /\ pc \in {"returned", "done"}
        /\ pc = "done" => cliClosed
        /\ upState = "closed"

C5_Witness ==
    /\ Refused
    /\ FirstLineSent = <<"H", "T", "T", "P", "/", "1", ".", "1", " ", "5", "0", "2", " ", "B", "a", "d", "\r", "\n">>
    /\ cliClosed

----------------------------------------------------------------------------
(* C6: for a Proxy{host, port} action the handler connects to the          *)
(* configured proxy host:port, and the CONNECT request line and Host       *)
(* header name the extracted host name with the target port.               *)

\* the first two lines of the CONNECT request the claim expects
ExpectedRequestHead ==
    <<"C", "O", "N", "N", "E", "C", "T", " ">> \o ExpectedHost \o <<":">> \o Itoa(ExpectedPort) \o <<" ", "H", "T", "T", "P", "/", "1", ".", "1">> \o CRLF
    \o HostPrefix \o ExpectedHost \o <<":">> \o Itoa(ExpectedPort) \o CRLF

ProxyDialedAsClaimed ==
    /\ Len(dials) = 1
    /\ dials[1].fn = "ConnectViaProxy"
    /\ DialTarget(dials[1].addr) = [host |-> proxyAction.Host, port |-> Itoa(proxyAction.Port)]
    /\ reqOK => HasPrefix(RequestSent, ExpectedRequestHead)

\* the claim as stated: every Proxy action is dialed through the proxy
C6_Original ==
    proxyAction.Type = "PROXY" /\ dials # <<>> => ProxyDialedAsClaimed

\* what the code does: a Proxy action with a non-empty host and a non-zero
\* port is dialed through the proxy with the extracted host name as CONNECT
\* target; a Proxy action with an empty host or port 0 is dialed directly,
\* without any CONNECT request
C6_ProxyDialsConfiguredProxy ==
    proxyAction.Type = "PROXY" /\ dials # <<>> =>
        IF proxyAction.Host # <<>> /\ proxyAction.Port # 0
        THEN ProxyDialedAsClaimed
        ELSE /\ Len(dials) = 1
             /\ dials[1].fn = "ConnectDirect"
             /\ DialTarget(dials[1].addr) = [host |-> ExpectedHost, port |-> Itoa(ExpectedPort)]
             /\ reqLen = 0

\* a CONNECT request was sent for a host name taken from SNI while the
\* original destination IP is known and different
C6_Witness ==
    /\ proxyAction.Type = "PROXY"
    /\ reqOK
    /\ listener = "https"
    /\ ParseSNI(initialData) # <<>>
    /\ originalIP # <<>>
    /\ originalIP # targetHost

----------------------------------------------------------------------------
(* C7: for a Direct action the handler dials exactly host_name:target_port *)
(* and writes no CONNECT request: the first bytes the upstream receives    *)
(* are the peeked client bytes.                                            *)

C7_DirectDialsHostName ==
    proxyAction.Type = "DIRECT" /\ dials # <<>> =>
        /\ Len(dials) = 1
        /\ dials[1].fn = "ConnectDirect"
        /\ DialTarget(dials[1].addr) = [host |-> ExpectedHost, port |-> Itoa(ExpectedPort)]
        /\ reqLen = 0
        /\ upOut # <<>> => IsPrefixOf(initialData, upOut)

\* a direct connection to a port other than the default carries the peek
C7_Witness ==
    /\ proxyAction.Type = "DIRECT"
    /\ Relaying
    /\ targetPort # DEFAULT_HTTPS_PORT
    /\ IsPrefixOf(initialData, upOut)

----------------------------------------------------------------------------
(* C8: in the CONNECT request, the value of X-Forwarded-For and the 'for=' *)
(* value of Forwarded are the client's IP address, without the source port *)

RequestLines == Split(RequestSent, "\n")

C8_ForwardedForIsClientIP ==
    reqOK =>
        /\ Len(RequestLines) >= 4
        /\ RequestLines[3] = <<"X", "-", "F", "o", "r", "w", "a", "r", "d", "e", "d", "-", "F", "o", "r", ":", " ">> \o ClientAddr.ip \o <<"\r">>
        /\ RequestLines[4] = <<"F", "o", "r", "w", "a", "r", "d", "e", "d", ":", " ", "f", "o", "r", "=">> \o ClientAddr.ip \o <<"\r">>

----------------------------------------------------------------------------
(* C9: after a successful CONNECT handshake that read the CRLF-only line,  *)
(* the handshake has taken no upstream byte beyond that line, and what the *)
(* client receives is the upstream's byte stream from that line on.        *)

HandshakeDone == ViaProxy /\ remoteConn = "conn" /\ HeaderEnd # 0 /\ hsEnd >= HeaderEnd

C9_HandshakeStopsAtHeaderEnd ==
    HandshakeDone =>
        /\ hsEnd = HeaderEnd
        /\ IsPrefixOf(cliOut, Tail2(upSent, HeaderEnd + 1))

----------------------------------------------------------------------------
(* C10: once the cancellation signal of a running Pipe fires, Pipe         *)
(* eventually returns and signals its wait group, even if its source never *)
(* delivers another byte, never ends and is closed by nobody.              *)

PipeRunning(p) == ppc[p] \notin {"idle", "done"}

C10_CancelEndsPipe ==
    \A p \in Pipes : (ctxDone /\ PipeRunning(p)) ~> (ppc[p] = "done" /\ wg = 0)

----------------------------------------------------------------------------
(* C11: once either relay of a connection has terminated, the other relay  *)
(* eventually terminates too and the handler reaches its end with both     *)
(* sockets closed, whatever the other relay is blocked in (a read, or a    *)
(* write to a peer that is not reading).                                   *)

HandlerDone == pc = "done" /\ cliClosed /\ upState = "closed"

C11_OneRelayEndsBoth ==
    \A p \in Pipes : (pc = "wait" /\ ppc[p] = "done") ~> HandlerDone

----------------------------------------------------------------------------
(* C12: a relay that exits shuts down only the write direction of its dst; *)
(* the read direction of dst stays open, so the opposite relay, whose src  *)
(* is that socket, can still read from it.                                 *)

\* the socket a Pipe writes to can still be read by this process
DstReadSideOpen(p) == IF p = "c2u" THEN upState = "open" ELSE ~cliClosed

C12_ExitKeepsReadSideOpen ==
    \A p \in Pipes :
        (pc = "wait" /\ ppc[p] = "done" /\ \E q \in Pipes : ppc[q] \notin {"done", "idle"})
            => DstReadSideOpen(p)

----------------------------------------------------------------------------
(* Quantities the claims about a relay refer to                            *)

\* bytes the source of a Pipe has sent that are meant for the Pipe: all the
\* client sent after the peeked bytes, all the upstream sent after what the
\* dialer took
SentToRelay(p) ==
    IF p = "c2u" THEN Tail2(cliSent, Len(initialData) + 1)
    ELSE Tail2(upSent, hsEnd + 1)

\* bytes a Pipe has read from its src so far
RelayRead(p) ==
    IF p = "c2u" THEN SubSeq(cliSent, Len(initialData) + 1, Len(cliSent) - Len(cliIn))
    ELSE SubSeq(upSent, hsEnd + 1, Len(upSent) - Len(upIn))

\* bytes a Pipe has written to its dst so far
RelayWritten(p) ==
    IF p = "c2u" THEN Tail2(upOut, reqLen + Len(ReplayData(initialData)) + 1)
    ELSE cliOut

\* the source of a Pipe has closed its write side
SrcFin(p) == IF p = "c2u" THEN cliFin ELSE upFin

\* the peer on the dst side of a Pipe observes end-of-stream: the proxy has
\* closed that socket
DstSeesEOF(p) == IF p = "c2u" THEN upState = "closed" ELSE cliClosed

----------------------------------------------------------------------------
(* C13: if the client closes its write side after sending bytes the relay  *)
(* can read, every one of those bytes is written to the upstream before    *)
(* the upstream observes end-of-stream (and the upstream eventually does); *)
(* the same with client and upstream exchanged.  Stated here as its        *)
(* ordering half, for runs in which no Write of the relay failed and the   *)
(* upstream deadline has not passed.                                       *)

C13_AllBytesBeforeEOF ==
    \A p \in Pipes :
        (/\ pc \in {"wait", "returned", "done"} /\ ppc[p] # "idle"
         /\ SrcFin(p) /\ DstSeesEOF(p)
         /\ ~upExpired
         /\ RelayWritten(p) = RelayRead(p))
            => RelayWritten(p) = SentToRelay(p)

----------------------------------------------------------------------------
(* C14: in every reachable state and for each direction, the bytes the     *)
(* relay has written to dst are a prefix of the bytes it has read from     *)
(* src: nothing is reordered, duplicated or skipped, and each chunk read   *)
(* is written before the next read is issued.                              *)

C14_RelayInOrder ==
    \A p \in Pipes :
        ppc[p] # "idle" =>
            /\ IsPrefixOf(RelayWritten(p), RelayRead(p))
            /\ ppc[p] \in {"select", "read"} => RelayWritten(p) = RelayRead(p)
            /\ ppc[p] = "write" => RelayRead(p) = RelayWritten(p) \o pbuf[p]

\* the upstream-to-client relay has written more than one chunk and is about
\* to read again, and the client-to-upstream relay has written bytes too
C14_Witness ==
    /\ pc = "wait"
    /\ ppc["u2c"] = "read"
    /\ pbuf["u2c"] # <<>>
    /\ Len(RelayWritten("u2c")) > Len(pbuf["u2c"])
    /\ RelayWritten("c2u") # <<>>

----------------------------------------------------------------------------
(* C15: on the TLS listener, when no SNI is found in the peeked bytes and  *)
(* the original destination IP is known, the rules are resolved with that  *)
(* IP as the host and the resulting action is dispatched with the IP as    *)
(* target host; at this step the connection is closed without a dial only  *)
(* when both the SNI and the original IP are empty.                        *)

\* the handler has gone past host extraction on the TLS listener and found
\* no SNI in what it peeked
NoSniResolved ==
    /\ listener = "https"
    /\ pc \notin {"accepted", "peek", "resolve"}
    /\ initialData # <<>>
    /\ ParseSNI(initialData) = <<>>

\* the start of a CONNECT request for host h and port n
ConnectLine(h, n) ==
    <<"C", "O", "N", "N", "E", "C", "T", " ">> \o h \o <<":">> \o Itoa(n) \o <<" ">>

----------------------------------------------------------------------------
(* C16: on the TLS path the target port handed to the dialer is the        *)
(* original destination port, or 443 when the original destination could   *)
(* not be resolved; on the HTTP path it is the port of the Host header, or *)
(* 80 when the header carries none, never the original destination port.   *)

\* getOriginalDst failed: the handler fell back to the peer address
OrigDstFailed == originalIP = ClientAddr.ip

\* the port getOriginalDst reports when it succeeds
ResolvedPort == (CHOOSE od \in OrigDstResults : od.ok).port

\* the port the claim expects the dialer to be given
ClaimedTargetPort ==
    IF listener = "https"
    THEN (IF OrigDstFailed THEN 443 ELSE ResolvedPort)
    ELSE ParseHTTPHost(initialData).port

C16_TargetPortPerListener ==
    /\ (dials # <<>> /\ dials[1].fn = "ConnectDirect")
            => DialTarget(dials[1].addr).port = Itoa(ClaimedTargetPort)
    /\ reqOK => HasPrefix(RequestSent, ConnectLine(targetHost, ClaimedTargetPort))

\* a TLS connection whose original destination could not be resolved was
\* dialed directly on port 443
C16_Witness ==
    /\ listener = "https"
    /\ OrigDstFailed
    /\ dials # <<>> /\ dials[1].fn = "ConnectDirect"
    /\ DialTarget(dials[1].addr).port = <<"4", "4", "3">>
    /\ upState = "open"

----------------------------------------------------------------------------
(* C17: for every byte sequence b, ParseSNI(b) terminates, reads no index  *)
(* outside b, and returns the empty string or a string of bytes that       *)
(* occurs contiguously within b.                                           *)

\* sub occurs contiguously within s
OccursIn(sub, s) ==
    \E i \in 1..(Len(s) - Len(sub) + 1) : SubSeq(s, i, i + Len(sub) - 1) = sub

SniReturned == rpc = "returned" /\ callee = "ParseSNI"

C17_ParseSNIStaysInBounds ==
    SniReturned =>
        /\ ret # Panic
        /\ ret = <<>> \/ OccursIn(ret, StringOf(arg))

\* a ClientHello with overwritten bytes still yielded a name, other than
\* the one it carried
C17_Witness ==
    /\ SniReturned
    /\ arg \in Corrupted
    /\ ret # <<>>
    /\ ret # StringOf(<<97, 98>>)

----------------------------------------------------------------------------
(* C18: for any well-formed ClientHello H carrying SNI s and any byte      *)
(* prefix P that does not contain 0x16 0x03 followed by 0x01, 0x02 or      *)
(* 0x03, ParseSNI(P || H) = s.                                             *)

C18_PrefixIsSkipped ==
    SniReturned =>
        \A P \in CleanPrefixes, h \in HelloParams :
            arg = P \o HelloOf(h) => ret = StringOf(h.name)

\* the ClientHello came after a prefix that ends with the first byte of a
\* record start, and its name was found
C18_Witness ==
    /\ SniReturned
    /\ \E P \in CleanPrefixes, h \in HelloParams :
        /\ P # <<>> /\ P[Len(P)] = 22
        /\ arg = P \o HelloOf(h)
        /\ ret = StringOf(h.name)

----------------------------------------------------------------------------
(* C19: for any well-formed ClientHello H with SNI s cut after its first k *)
(* bytes: if k is at or past the end of the host name, ParseSNI gives s,   *)
(* although the record, handshake and extensions lengths announce more     *)
(* bytes than there are; if k is before the start of the host name, it     *)
(* gives the empty string.                                                 *)

C19_TruncatedClientHello ==
    SniReturned =>
        \A h \in HelloParams :
            LET k == Len(arg)
            IN  (k =< Len(HelloOf(h)) /\ arg = SubSeq(HelloOf(h), 1, k)) =>
                    /\ k >= NameStart(h.sid, h.pre) + Len(h.name) => ret = StringOf(h.name)
                    /\ k < NameStart(h.sid, h.pre) => ret = <<>>

\* a ClientHello cut right after its host name, with an extension missing
\* behind it, still gave the name
C19_Witness ==
    /\ SniReturned
    /\ \E h \in HelloParams :
        /\ h.post # <<>>
        /\ arg = SubSeq(HelloOf(h), 1, NameStart(h.sid, h.pre) + Len(h.name))
        /\ ret = StringOf(h.name)

----------------------------------------------------------------------------
(* C20: for a matching rule, the raw action string maps to the action as   *)
(* follows: exactly DIRECT gives Direct, exactly DROP gives Drop, any      *)
(* other string is split at its last ':' into host and port and gives      *)
(* Proxy{host, port}, the port being 3128 when there is no ':', nothing    *)
(* after it, or text after it that is not a number; a bracketed IPv6 host  *)
(* before the last ':' is kept verbatim.                                   *)

\* a decimal number, with or without a sign
IsNumber(t) ==
    LET body == IF t # <<>> /\ t[1] \in {"+", "-"} THEN Tail(t) ELSE t
    IN  body # <<>> /\ \A i \in 1..Len(body) : IsDigit(body[i])

NumberValue(t) ==
    IF t[1] = "-" THEN 0 - DecVal(Tail(t))
    ELSE IF t[1] = "+" THEN DecVal(Tail(t))
    ELSE DecVal(t)

\* the action the claim assigns to an action string
ClaimedAction(str) ==
    LET colons == {i \in 1..Len(str) : str[i] = ":"}
        c      == CHOOSE i \in colons : \A j \in colons : j =< i
        after  == SubSeq(str, c + 1, Len(str))
    IN  IF str = DIRECT THEN [Type |-> "DIRECT", Host |-> <<>>, Port |-> 0]
        ELSE IF str = DROP THEN [Type |-> "DROP", Host |-> <<>>, Port |-> 0]
        ELSE IF colons = {} THEN [Type |-> "PROXY", Host |-> str, Port |-> 3128]
        ELSE [Type |-> "PROXY", Host |-> SubSeq(str, 1, c - 1),
              Port |-> IF IsNumber(after) THEN NumberValue(after) ELSE 3128]

C20_ActionStringMapping ==
    (rpc = "returned" /\ Len(rules) = 1 /\ Matches(1))
        => action = ClaimedAction(rules[1].Proxy)

\* a bracketed IPv6 proxy address with a port was split at its last colon
C20_Witness ==
    /\ rpc = "returned" /\ Len(rules) = 1 /\ Matches(1)
    /\ rules[1].Proxy = <<"[", ":", ":", "1", "]", ":", "8", "0">>
    /\ action = [Type |-> "PROXY", Host |-> <<"[", ":", ":", "1", "]">>, Port |-> 80]

----------------------------------------------------------------------------
(* C21: every Proxy action the rule engine produces has a port in          *)
(* 1..65535: when the text after the last ':' of the action string is a    *)
(* number outside that range, the port is 3128.                            *)

\* the text after the last ':' of an action string (empty without a ':')
AfterLastColon(str) ==
    LET colons == {i \in 1..Len(str) : str[i] = ":"}
    IN  IF colons = {} THEN <<>>
        ELSE SubSeq(str, (CHOOSE i \in colons : \A j \in colons : j =< i) + 1, Len(str))

C21_ProxyPortInRange ==
    (rpc = "returned" /\ Len(rules) = 1 /\ Matches(1) /\ action.Type = "PROXY") =>
        /\ action.Port \in 1..65535
        /\ LET after == AfterLastColon(rules[1].Proxy)
           IN  (IsNumber(after) /\ NumberValue(after) \notin 1..65535) => action.Port = 3128

----------------------------------------------------------------------------
(* C22: a rule whose pattern does not compile is skipped at match time and *)
(* is never fatal: FindProxyForHost returns no error and the action it     *)
(* returns for the list with the uncompilable rules removed.               *)

Compilable(rs) == SelectSeq(rs, LAMBDA r : RegexCompiles(r.Pattern))

\* first-match resolution over rules that all compile, stated directly
RECURSIVE FirstMatchAction(_, _)
FirstMatchAction(h, rs) ==
    IF rs = <<>> THEN [Type |-> "DIRECT", Host |-> <<>>, Port |-> 0]
    ELSE IF RegexMatch(Head(rs).Pattern, h) THEN RuleAction(Head(rs))
    ELSE FirstMatchAction(h, Tail(rs))

C22_BadPatternSkipped ==
    rpc = "returned" =>
        /\ ~FindErrFrom(host, rules, 1)
        /\ action = FirstMatchAction(host, Compilable(rules))

\* an uncompilable rule precedes a matching rule with a non-DIRECT action
C22_Witness ==
    /\ rpc = "returned"
    /\ Len(rules) = 2
    /\ ~RegexCompiles(rules[1].Pattern)
    /\ Matches(2)
    /\ action.Type # "DIRECT"

----------------------------------------------------------------------------
(* The head of a request as the claims about ParseHTTPHost describe it.    *)

\* the complete lines (each ending in "\n") of a text, in order
RECURSIVE CompleteLines(_)
CompleteLines(s) ==
    LET idx == IndexOf(s, "\n")
    IN  IF idx = 0 THEN <<>>
        ELSE <<SubSeq(s, 1, idx)>> \o CompleteLines(Tail2(s, idx + 1))

\* the header lines: the complete lines after the request line and before
\* the first empty CRLF line
HeaderRegion(data) ==
    LET ls  == CompleteLines(StringOf(data))
        hs  == IF ls = <<>> THEN <<>> ELSE Tail(ls)
        end == {i \in 1..Len(hs) : hs[i] = CRLF}
    IN  IF end = {} THEN hs
        ELSE SubSeq(hs, 1, (CHOOSE i \in end : \A j \in end : i =< j) - 1)

HostLinesOf(data) ==
    LET hs == HeaderRegion(data)
    IN  {i \in 1..Len(hs) : IsPrefixOf(HostPrefix, hs[i])}

HasHostLine == HostLinesOf(arg) # {}

\* the trimmed value of the first "Host: " header line
HostValue ==
    LET hs == HeaderRegion(arg)
        i  == CHOOSE i \in HostLinesOf(arg) : \A j \in HostLinesOf(arg) : i =< j
    IN  TrimSpace(SubSeq(hs[i], Len(HostPrefix) + 1, Len(hs[i])))

(* C23: the port ParseHTTPHost returns is always within 0..65535: the      *)
(* number after the colon of the Host value when that text is a decimal    *)
(* uint16, and 80 in every other case.                                     *)
C23_HttpPortIsUint16 ==
    (rpc = "returned" /\ callee = "ParseHTTPHost") =>
        /\ ret.port \in 0..65535
        /\ LET colon == IF HasHostLine THEN IndexOf(HostValue, ":") ELSE 0
               after == IF colon = 0 THEN <<>> ELSE Tail2(HostValue, colon + 1)
           IN  ret.port = IF /\ after # <<>>
                             /\ \A i \in 1..Len(after) : IsDigit(after[i])
                             /\ DecVal(after) =< 65535
                          THEN DecVal(after) ELSE 80

(* C24: ParseHTTPHost skips the request line, examines header lines only   *)
(* up to the first empty CRLF line or read error, returns the value of the *)
(* first "Host: " header line found there and ("", 80) when there is none. *)
C24_FirstHostHeaderInHead ==
    (rpc = "returned" /\ callee = "ParseHTTPHost") =>
        IF HasHostLine
        THEN LET colon == IndexOf(HostValue, ":")
             IN  ret.host = IF colon = 0 THEN HostValue
                            ELSE SubSeq(HostValue, 1, colon - 1)
        ELSE ret = [host |-> <<>>, port |-> 80]

\* the request line is itself a Host line, the head has a Host header, and
\* another Host line follows the empty line
C24_Witness ==
    /\ rpc = "returned" /\ callee = "ParseHTTPHost"
    /\ IsPrefixOf(HostPrefix, StringOf(arg))
    /\ HasHostLine
    /\ ret.host = <<"b">>
    /\ \E k \in 1..(Len(arg) - 3) :
          /\ SubSeq(StringOf(arg), k, k + 3) = CRLF \o CRLF
          /\ IsPrefixOf(HostPrefix \o <<"a">>, Tail2(StringOf(arg), k + 4))

----------------------------------------------------------------------------
(* C25: on the HTTP listener, when ParseHTTPHost yields an empty host the  *)
(* handler closes the client connection without resolving any rule and     *)
(* without attempting any upstream connection.                             *)

NoHostResolved ==
    /\ listener = "http"
    /\ pc \notin {"accepted", "peek", "resolve"}
    /\ initialData # <<>>
    /\ ParseHTTPHost(initialData).host = <<>>

C25_EmptyHostClosesClient ==
    NoHostResolved =>
        /\ pc = "done" /\ cliClosed
        /\ proxyAction = NoAction /\ targetHost = <<>>
        /\ dials = <<>> /\ upState = "none" /\ upOut = <<>>

\* a complete request without a Host header arrived on the HTTP listener,
\* whose original destination was resolved
C25_Witness ==
    /\ NoHostResolved
    /\ initialData = GetRequest(<<>>)
    /\ originalIP # <<>> /\ originalIP # ClientAddr.ip
    /\ cliClosed

----------------------------------------------------------------------------
(* C26: LoadConfig fills defaults: a missing file gives host 127.0.0.1,    *)
(* HTTPS port 3130, HTTP port 3131, timeout 900 and the single rule        *)
(* '.*' -> DIRECT; in an existing file every absent listen field takes its *)
(* default, an empty rule list becomes ['.*' -> DIRECT], and every field   *)
(* that is present keeps its configured value.                             *)

Loaded == rpc = "returned" /\ callee = "LoadConfig" /\ ~ret.err

ClaimedDefaults ==
    [Listen |-> [Host |-> <<"1", "2", "7", ".", "0", ".", "0", ".", "1">>,
                 HTTPSPort |-> 3130, HTTPPort |-> 3131, Timeout |-> 900],
     Rules  |-> <<[Pattern |-> <<".", "*">>, Proxy |-> <<"D", "I", "R", "E", "C", "T">>]>>]

\* the value of a key that is kept when present and defaulted when absent
KeptOrDefault(key, default) == IF key.set THEN key.val ELSE default

\* the value of a key that is also defaulted when present with value zero
NonZeroOrDefault(key, zero, default) ==
    IF key.set /\ key.val # zero THEN key.val ELSE default

C26_Original ==
    Loaded =>
        IF arg.kind = "missing" THEN ret.config = ClaimedDefaults
        ELSE /\ ret.config.Listen.Host = KeptOrDefault(arg.host, ClaimedDefaults.Listen.Host)
             /\ ret.config.Listen.HTTPSPort = KeptOrDefault(arg.https_port, 3130)
             /\ ret.config.Listen.HTTPPort = KeptOrDefault(arg.http_port, 3131)
             /\ ret.config.Listen.Timeout = KeptOrDefault(arg.timeout, 900)
             /\ ret.config.Rules = NonZeroOrDefault(arg.rules, <<>>, ClaimedDefaults.Rules)

(* C26 as the code has it: a field that is present with the zero value of  *)
(* its type (host "", port 0, timeout 0) takes its default like an absent  *)
(* one; every other present value is kept.                                 *)
C26_DefaultsForAbsentOrZero ==
    Loaded =>
        IF arg.kind = "missing" THEN ret.config = ClaimedDefaults
        ELSE /\ ret.config.Listen.Host
                    = NonZeroOrDefault(arg.host, <<>>, ClaimedDefaults.Listen.Host)
             /\ ret.config.Listen.HTTPSPort = NonZeroOrDefault(arg.https_port, 0, 3130)
             /\ ret.config.Listen.HTTPPort = NonZeroOrDefault(arg.http_port, 0, 3131)
             /\ ret.config.Listen.Timeout = NonZeroOrDefault(arg.timeout, 0, 900)
             /\ ret.config.Rules = NonZeroOrDefault(arg.rules, <<>>, ClaimedDefaults.Rules)

\* a file that sets the host and an explicit zero timeout and leaves out
\* both ports and the rules
C26_Witness ==
    /\ Loaded /\ arg.kind = "yaml"
    /\ arg.host.set /\ arg.host.val # <<>>
    /\ ~arg.https_port.set /\ ~arg.http_port.set /\ ~arg.rules.set
    /\ arg.timeout.set /\ arg.timeout.val = 0
    /\ ret.config.Listen.HTTPSPort = 3130 /\ ret.config.Listen.HTTPPort = 3131
    /\ ret.config.Listen.Timeout = 900

(* C27: every configuration LoadConfig returns without error has both      *)
(* listen ports in 1..65535 and a non-empty rule list.                     *)
C27_LoadedConfigIsValid ==
    Loaded =>
        /\ ret.config.Listen.HTTPSPort \in 1..65535
        /\ ret.config.Listen.HTTPPort \in 1..65535
        /\ ret.config.Rules # <<>>

----------------------------------------------------------------------------
(* C28: if binding either listening socket fails, StartServers returns an  *)
(* error, no accept loop is running, no handler has been spawned, and a    *)
(* listener bound before the failure has been closed.                      *)
C28_BindFailureReturnsError ==
    (\E l \in Listeners : bound[l] = "failed") =>
        /\ spc = "returned" /\ startErr # <<>>
        /\ \A l \in Listeners : loop[l] = "none" /\ bound[l] # "listening"
        /\ conns = <<>>

\* the HTTPS socket was bound, the HTTP bind failed, the HTTPS listener is
\* closed again
C28_Witness ==
    /\ bound["http"] = "failed" /\ bound["https"] = "closed"
    /\ spc = "returned"
    /\ startErr = BindError("http")

(* C29: an accept error on one listener never ends its accept loop nor the *)
(* other listener's loop: after any number of accept errors a connection   *)
(* that arrives on either listener is still accepted and handed to a       *)
(* handler of that listener's class.                                       *)
C29_AcceptErrorsKeepLoops ==
    /\ [][\A l \in Listeners : loop[l] = "accepting" => loop'[l] = "accepting"]_vars
    /\ [](\A l \in Listeners :
            (spc = "serving" /\ pending[l] > 0) => ENABLED Accept(l))
    /\ [][\A l \in Listeners :
            (loop[l] = "accepting" /\ pending'[l] < pending[l]) =>
                /\ Len(conns') = Len(conns) + 1
                /\ conns'[Len(conns')].class = l
                /\ conns'[Len(conns')].st = "peek"]_vars

\* each loop has logged its errors, and afterwards accepted a connection of
\* its own class
C29_Witness ==
    /\ Len(conns) = 2
    /\ conns[1].class # conns[2].class
    /\ \A c \in 1..2 : conns[c].errsBefore = MaxAcceptErrors

(* C30: handlers of different connections are independent: a step of one   *)
(* handler leaves the sockets, the relay state and the progress of every   *)
(* other connection unchanged, and leaves both accept loops running.       *)
C30_HandlersIndependent ==
    [][\A c \in ConnIds :
          HandlerStep(c) =>
              /\ Len(conns') = Len(conns)
              /\ \A d \in 1..Len(conns) : d # c => conns'[d] = conns[d]
              /\ \A l \in Listeners :
                    loop'[l] = "accepting" /\ bound'[l] = "listening"]_vars

\* one handler has returned after its relay ended while another is relaying
C30_Witness ==
    /\ Len(conns) = 2
    /\ \E c, d \in 1..2 :
          /\ conns[c].st = "done" /\ conns[c].up = "closed" /\ conns[c].cli = "closed"
          /\ conns[d].st = "relay" /\ conns[d].up = "open" /\ conns[d].cli = "open"

----------------------------------------------------------------------------
(* C31: every connection that reaches relaying has a deadline on both of   *)
(* its sockets, so that once the deadline has passed no read or write      *)
(* succeeds on the upstream socket nor on the client socket.               *)

\* a Read took bytes from, or a Write put bytes to, the upstream socket
UpstreamIoSucceeds == Len(upIn') < Len(upIn) \/ upOut' # upOut

\* the same for the client socket
ClientIoSucceeds == Len(cliIn') < Len(cliIn) \/ cliOut' # cliOut

C31_DeadlineOnBothSockets ==
    [][(pc = "wait" /\ upExpired) => (~UpstreamIoSucceeds /\ ~ClientIoSucceeds)]_vars

----------------------------------------------------------------------------
(* C32: a handler in PEEKING whose client sends no bytes and does not      *)
(* close eventually leaves PEEKING through a timeout and closes the client *)
(* connection: it never waits for the first client bytes without bound.    *)
C32_PeekTimesOut == (pc = "peek") ~> (pc # "peek")

----------------------------------------------------------------------------
(* C33: no error is retried: for each accepted connection the handler      *)
(* makes at most one upstream connection attempt and sends at most one     *)
(* CONNECT request, and after a dial failure, a refused CONNECT or a       *)
(* failed replay it never dials again.                                     *)

ConnectBytes == BytesOf(<<"C", "O", "N", "N", "E", "C", "T", " ">>)

\* the places in the upstream's input at which a CONNECT request starts
ConnectRequests ==
    {i \in 1..(Len(upOut) - Len(ConnectBytes) + 1) :
        SubSeq(upOut, i, i + Len(ConnectBytes) - 1) = ConnectBytes}

\* the dialer or the replay has failed
UpstreamFailed == remoteConn = "err" \/ (pc \in {"returned", "done"} /\ dials # <<>>)

C33_NoRetry ==
    /\ [](Len(dials) =< 1 /\ Cardinality(ConnectRequests) =< 1)
    /\ [][UpstreamFailed => (dials' = dials /\ upOut' = upOut /\ upState' # "open")]_vars

\* the proxy refused the one CONNECT request and the handler has ended
C33_Witness ==
    /\ ViaProxy /\ remoteConn = "err" /\ reqOK /\ statusRead
    /\ pc = "done"
    /\ Len(dials) = 1 /\ Cardinality(ConnectRequests) = 1

----------------------------------------------------------------------------
(* C34: when proxyConnection returns after an upstream dial that failed    *)
(* (Direct or Proxy action), the client connection it was given has been   *)
(* closed.                                                                 *)

\* ConnectDirect or ConnectViaProxy failed before any request was sent
DialFailed == dials # <<>> /\ remoteConn = "err" /\ ~reqOK

C34_DialFailureClosesClient ==
    (DialFailed /\ pc = "returned") => cliClosed

----------------------------------------------------------------------------
(* C35: whenever the resolved action has type Proxy, the upstream          *)
(* connection is made through ConnectViaProxy to the action's host and     *)
(* port; the target is never dialed directly for a Proxy action, whatever  *)
(* the action's host and port are (an empty host and port 0 included).     *)
C35_ProxyNeverDialsDirect ==
    (proxyAction.Type = "PROXY" /\ pc \notin {"accepted", "peek", "resolve", "dispatch"}) =>
        /\ pc # "directDial"
        /\ \A i \in 1..Len(dials) :
              /\ dials[i].fn = "ConnectViaProxy"
              /\ dials[i].addr = JoinHostPort(proxyAction.Host, Itoa(proxyAction.Port))

----------------------------------------------------------------------------
(* C36: ConnectViaProxy returns a socket only after it has read the        *)
(* CRLF-only line that ends the proxy's response headers: if the upstream  *)
(* closes, errors or times out after a 200 status line but before that     *)
(* line, no socket is returned and no relay is started on it.              *)

\* the dialer has taken the CRLF-only line from the upstream socket
HeaderEndRead == HeaderEnd # 0 /\ hsEnd >= HeaderEnd

C36_SocketOnlyAfterHeaderEnd ==
    ViaProxy =>
        /\ remoteConn = "conn" => HeaderEndRead
        /\ Relaying => HeaderEndRead

----------------------------------------------------------------------------
(* C37: relay activity never refreshes the upstream deadline: it is set    *)
(* once at dial time, and once it has passed, the next read or write on    *)
(* the upstream socket fails and both relays of the connection terminate,  *)
(* even if bytes were flowing in both directions until then.               *)

BothRelaysDone == \A p \in Pipes : ppc[p] = "done"

\* a passed deadline stays passed and no upstream Read or Write succeeds
C37_DeadlineNotRefreshed ==
    [][upExpired => (upExpired' /\ ~UpstreamIoSucceeds)]_vars

C37_DeadlineEndsBothRelays ==
    (pc = "wait" /\ upExpired) ~> BothRelaysDone

----------------------------------------------------------------------------
(* C38: whenever Pipe(ctx, src, dst) returns, for any reason               *)
(* (cancellation, source end-of-stream or error, destination write error), *)
(* dst has been closed so that later writes towards it fail, and the wait  *)
(* group has been signalled exactly once.                                  *)

DstClosed(p) == IF p = "c2u" THEN upState = "closed" ELSE cliClosed

\* the wait group counts exactly the Pipes that have not returned yet
C38_PipeReturnClosesDst ==
    /\ \A p \in Pipes :
            ppc[p] = "done" => (DstClosed(p) /\ DstBroken(p) /\ ~DstWritable(p))
    /\ wg = Cardinality({p \in Pipes : PipeRunning(p)})

\* a Pipe has returned although its source neither ended nor timed out: it
\* left through the cancellation or through a failed Write
C38_Witness ==
    \E p \in Pipes :
        /\ ppc[p] = "done" /\ wg = 0 /\ ctxDone
        /\ ~SrcFin(p) /\ ~upExpired

----------------------------------------------------------------------------
(* C39: every handler run that ends, on any path (peek error, empty host,  *)
(* Drop, dial failure, refused CONNECT, failed replay, or both relays      *)
(* finished), leaves the client socket closed and, if an upstream socket   *)
(* was opened, leaves that socket closed too: no path leaks an open socket.*)

C39_NoSocketLeak ==
    pc = "done" =>
        /\ cliClosed
        /\ upState # "open"
        /\ \A p \in Pipes : ~PipeRunning(p)

\* a run that had dialed an upstream and ended without relaying
C39_Witness ==
    /\ pc = "done" /\ cliClosed
    /\ dials # <<>> /\ upState = "closed"
    /\ ~Relaying

----------------------------------------------------------------------------
(* C40: in ParseSNI, any length field of the ClientHello whose value       *)
(* exceeds 65536 (in particular a 3-byte handshake length above 65536)     *)
(* makes the result empty, even when a complete server_name extension is   *)
(* present in the buffer.                                                  *)

\* the 3-byte handshake length of the ClientHello found in data, -1 when
\* the buffer has no handshake header; the only length field of the
\* message that is wide enough to exceed 65536
HandshakeLengthOf(data) ==
    LET startPos == findTLSHandshake(data)
    IN  IF startPos = -1 \/ Len(data) < startPos + 9
        THEN -1
        ELSE U24(data, startPos + 6)

C40_OversizedLengthIsMalformed ==
    (SniReturned /\ HandshakeLengthOf(arg) > 65536) => ret = <<>>

====
